---- MODULE Spec2Model ----
(***************************************************************************)
(* Composition engine of the azooKey-Windows text service:                 *)
(*   crates/client/src/engine/composition.rs   process_key, handle_key,    *)
(*                                             handle_action               *)
(*   crates/client/src/engine/ipc_service.rs   IPCService (RPC facade)     *)
(*   crates/client/src/tsf/text_input_proccesor.rs   Activate              *)
(* One key event (handle_key) is one step: the whole action list is        *)
(* interpreted inside the step, as the host's UI thread does.              *)
(***************************************************************************)
EXTENDS Integers, Sequences, FiniteSets, TLC

\* ------------------------------------------------------------------ bounds
\* longest raw input / backend buffer explored
MaxLen == 2
\* most suggestions in one backend response
MaxCands == 2
\* the clock is explored up to MaxTime seconds
MaxTime == 20
\* busy results of the pipes are counted up to MaxBusy
MaxBusy == 3
\* activations are explored up to MaxRefs references on the DLL
MaxRefs == 2

\* ------------------------------------------------------ program constants
IPC_RECONNECT_COOLDOWN_SECS == 10
\* the two reserved virtual-key codes
VK_IME_OFF == 151
VK_IME_ON == 152
\* the connector of IPCService::new
MAX_CONNECT_RETRIES == 20
CONNECT_RETRY_DELAY == 100

\* ------------------------------------------------------------------- text
\* A string is a sequence of one-character tokens:
\*   "a" "1"    what the keyboard produces (ASCII)
\*   "Fa" "F1"  their fullwidth forms
\*   "Ha"       the hiragana the backend makes of "Fa"
\*   "Ta" "ta"  its katakana and half-width katakana
\*   "K" "L"    converted (kanji) characters
Empty == << >>

chars_count(s) == Len(s)

FullwidthChar(c) ==
  CASE c = "a" -> "Fa"
    [] c = "1" -> "F1"
    [] OTHER -> c

to_fullwidth(s, preserve) == [i \in 1..Len(s) |-> FullwidthChar(s[i])]

\* chars().take(n as usize): a negative i32 wraps to a count beyond any length
Take(s, n) == IF n < 0 \/ n >= Len(s) THEN s ELSE SubSeq(s, 1, n)
\* chars().skip(n as usize)
Skip(s, n) == IF n < 0 \/ n >= Len(s) THEN << >> ELSE SubSeq(s, n + 1, Len(s))
\* all but the last character (Vec::pop, saturating_sub(1))
DropLast(s) == IF s = << >> THEN s ELSE SubSeq(s, 1, Len(s) - 1)

\* the other transforms, character by character
HalfwidthChar(c) ==
  CASE c = "Fa" -> "a"
    [] c = "F1" -> "1"
    [] OTHER -> c
KatakanaChar(c) == IF c = "Ha" THEN "Ta" ELSE c
HalfKatakanaChar(c) == IF c = "Ha" THEN "ta" ELSE c
to_halfwidth(s) == [i \in 1..Len(s) |-> HalfwidthChar(s[i])]
to_katakana(s) == [i \in 1..Len(s) |-> KatakanaChar(s[i])]
to_half_katakana(s) == [i \in 1..Len(s) |-> HalfKatakanaChar(s[i])]

Max2(a, b) == IF a > b THEN a ELSE b
Min2(a, b) == IF a < b THEN a ELSE b

\* ------------------------------------------------------------- candidates
NoCandidates ==
  [texts |-> << >>, sub_texts |-> << >>, hiragana |-> Empty,
   corresponding_count |-> << >>]

\* ------------------------------------------------------------ user input
InputChars == {"a"}
Digits == {"1"}
Directions == {"Left", "Right", "Up", "Down"}
FunctionKeys == {"Six", "Seven", "Eight", "Nine", "Ten"}

UA(t, v) == [t |-> t, v |-> v]

UserActions ==
  {UA("Input", c) : c \in InputChars} \cup
  {UA("Number", d) : d \in Digits} \cup
  {UA("Navigation", d) : d \in Directions} \cup
  {UA("Function", f) : f \in FunctionKeys} \cup
  {UA(t, "") : t \in {"Backspace", "Enter", "Escape", "Space", "Tab",
                       "ToggleInputMode", "Unhandled"}}

\* a key event's wparam: a reserved code, or a code the decoder maps to a
\* user action
Keys == {UA("VK", "0x97"), UA("VK", "0x98")} \cup UserActions

KeyCode(k) ==
  CASE k = UA("VK", "0x97") -> VK_IME_OFF
    [] k = UA("VK", "0x98") -> VK_IME_ON
    [] OTHER -> 0

\* ---------------------------------------------------------- client actions
\* a client action and its argument (always a sequence of tokens)
CA(op, arg) == [op |-> op, arg |-> arg]

NotConsumed == [consumed |-> FALSE, actions |-> << >>, transition |-> "None"]
Consumed(transition, actions) ==
  [consumed |-> TRUE, actions |-> actions, transition |-> transition]

\* ToggleMode that always answers Latin
ToggleMode_latin(mode) == "Latin"

ToggleMode(mode) == IF mode = "Kana" THEN "Latin" ELSE "Kana"

FunctionType(f) ==
  CASE f = "Six" -> "Hiragana"
    [] f = "Seven" -> "Katakana"
    [] f = "Eight" -> "HalfKatakana"
    [] f = "Nine" -> "FullLatin"
    [] f = "Ten" -> "HalfLatin"

\* ComposingRows with the Backspace test dropped: Backspace always ends the
\* composition
ComposingRows_backspace(c, action) ==
  CASE action.t \in {"Backspace", "Escape"} ->
         Consumed("None", <<CA("RemoveText", Empty), CA("EndComposition", Empty)>>)
    [] action.t = "Enter" ->
         IF c.suffix = Empty
         THEN Consumed("None", <<CA("EndComposition", Empty)>>)
         ELSE Consumed("Composing", <<CA("ShrinkText", Empty)>>)
    [] action.t = "Navigation" ->
         (CASE action.v = "Right" -> Consumed("Composing", <<CA("MoveCursor", <<"+1">>)>>)
            [] action.v = "Left" -> Consumed("Composing", <<CA("MoveCursor", <<"-1">>)>>)
            [] action.v = "Up" -> Consumed("Previewing", <<CA("SetSelection", <<"Up">>)>>)
            [] action.v = "Down" -> Consumed("Previewing", <<CA("SetSelection", <<"Down">>)>>))
    [] action.t = "ToggleInputMode" ->
         Consumed("None", <<CA("EndComposition", Empty), CA("SetIMEMode", <<"Latin">>)>>)
    [] action.t \in {"Space", "Tab"} ->
         Consumed("Previewing", <<CA("SetSelection", <<"Down">>)>>)
    [] action.t = "Function" ->
         Consumed("Previewing", <<CA("SetTextWithType", <<FunctionType(action.v)>>)>>)
    [] OTHER -> NotConsumed

\* ComposingRows with the Backspace test widened to "at most one character"
ComposingRows_backspace_empty(c, action) ==
  CASE action.t = "Backspace" ->
         IF chars_count(c.preview) <= 1
         THEN Consumed("None", <<CA("RemoveText", Empty), CA("EndComposition", Empty)>>)
         ELSE Consumed("Composing", <<CA("RemoveText", Empty)>>)
    [] action.t = "Enter" ->
         IF c.suffix = Empty
         THEN Consumed("None", <<CA("EndComposition", Empty)>>)
         ELSE Consumed("Composing", <<CA("ShrinkText", Empty)>>)
    [] action.t = "Escape" ->
         Consumed("None", <<CA("RemoveText", Empty), CA("EndComposition", Empty)>>)
    [] action.t = "Navigation" ->
         (CASE action.v = "Right" -> Consumed("Composing", <<CA("MoveCursor", <<"+1">>)>>)
            [] action.v = "Left" -> Consumed("Composing", <<CA("MoveCursor", <<"-1">>)>>)
            [] action.v = "Up" -> Consumed("Previewing", <<CA("SetSelection", <<"Up">>)>>)
            [] action.v = "Down" -> Consumed("Previewing", <<CA("SetSelection", <<"Down">>)>>))
    [] action.t = "ToggleInputMode" ->
         Consumed("None", <<CA("EndComposition", Empty), CA("SetIMEMode", <<"Latin">>)>>)
    [] action.t \in {"Space", "Tab"} ->
         Consumed("Previewing", <<CA("SetSelection", <<"Down">>)>>)
    [] action.t = "Function" ->
         Consumed("Previewing", <<CA("SetTextWithType", <<FunctionType(action.v)>>)>>)
    [] OTHER -> NotConsumed

\* ComposingRows with Enter ending the composition whatever the suffix
ComposingRows_enter(c, action) ==
  CASE action.t = "Backspace" ->
         IF chars_count(c.preview) = 1
         THEN Consumed("None", <<CA("RemoveText", Empty), CA("EndComposition", Empty)>>)
         ELSE Consumed("Composing", <<CA("RemoveText", Empty)>>)
    [] action.t = "Enter" ->
         Consumed("None", <<CA("EndComposition", Empty)>>)
    [] action.t = "Escape" ->
         Consumed("None", <<CA("RemoveText", Empty), CA("EndComposition", Empty)>>)
    [] action.t = "Navigation" ->
         (CASE action.v = "Right" -> Consumed("Composing", <<CA("MoveCursor", <<"+1">>)>>)
            [] action.v = "Left" -> Consumed("Composing", <<CA("MoveCursor", <<"-1">>)>>)
            [] action.v = "Up" -> Consumed("Previewing", <<CA("SetSelection", <<"Up">>)>>)
            [] action.v = "Down" -> Consumed("Previewing", <<CA("SetSelection", <<"Down">>)>>))
    [] action.t = "ToggleInputMode" ->
         Consumed("None", <<CA("EndComposition", Empty), CA("SetIMEMode", <<"Latin">>)>>)
    [] action.t \in {"Space", "Tab"} ->
         Consumed("Previewing", <<CA("SetSelection", <<"Down">>)>>)
    [] action.t = "Function" ->
         Consumed("Previewing", <<CA("SetTextWithType", <<FunctionType(action.v)>>)>>)
    [] OTHER -> NotConsumed

\* the rows shared by the Composing and the Previewing arm
ComposingRows(c, action) ==
  CASE action.t = "Backspace" ->
         IF chars_count(c.preview) = 1
         THEN Consumed("None", <<CA("RemoveText", Empty), CA("EndComposition", Empty)>>)
         ELSE Consumed("Composing", <<CA("RemoveText", Empty)>>)
    [] action.t = "Enter" ->
         IF c.suffix = Empty
         THEN Consumed("None", <<CA("EndComposition", Empty)>>)
         ELSE Consumed("Composing", <<CA("ShrinkText", Empty)>>)
    [] action.t = "Escape" ->
         Consumed("None", <<CA("RemoveText", Empty), CA("EndComposition", Empty)>>)
    [] action.t = "Navigation" ->
         (CASE action.v = "Right" -> Consumed("Composing", <<CA("MoveCursor", <<"+1">>)>>)
            [] action.v = "Left" -> Consumed("Composing", <<CA("MoveCursor", <<"-1">>)>>)
            [] action.v = "Up" -> Consumed("Previewing", <<CA("SetSelection", <<"Up">>)>>)
            [] action.v = "Down" -> Consumed("Previewing", <<CA("SetSelection", <<"Down">>)>>))
    [] action.t = "ToggleInputMode" ->
         Consumed("None", <<CA("EndComposition", Empty), CA("SetIMEMode", <<"Latin">>)>>)
    [] action.t \in {"Space", "Tab"} ->
         Consumed("Previewing", <<CA("SetSelection", <<"Down">>)>>)
    [] action.t = "Function" ->
         Consumed("Previewing", <<CA("SetTextWithType", <<FunctionType(action.v)>>)>>)
    [] OTHER -> NotConsumed

\* transition_table with the mode guard of the None arm dropped
transition_table_any_mode(c, mode, action) ==
  CASE c.state = "None" ->
         (CASE action.t \in {"Input", "Number"} ->
                 Consumed("Composing",
                          <<CA("StartComposition", Empty), CA("AppendText", <<action.v>>)>>)
            [] action.t = "ToggleInputMode" ->
                 Consumed("None", <<CA("SetIMEMode", <<ToggleMode(mode)>>)>>)
            [] OTHER -> NotConsumed)
    [] c.state = "Composing" ->
         (CASE action.t \in {"Input", "Number"} ->
                 Consumed("Composing", <<CA("AppendText", <<action.v>>)>>)
            [] OTHER -> ComposingRows(c, action))
    [] c.state = "Previewing" ->
         (CASE action.t \in {"Input", "Number"} ->
                 Consumed("Composing", <<CA("ShrinkText", <<action.v>>)>>)
            [] OTHER -> ComposingRows(c, action))
    [] OTHER -> NotConsumed

\* the match on (composition.state, action)
transition_table(c, mode, action) ==
  CASE c.state = "None" ->
         (CASE action.t \in {"Input", "Number"} /\ mode = "Kana" ->
                 Consumed("Composing",
                          <<CA("StartComposition", Empty), CA("AppendText", <<action.v>>)>>)
            [] action.t = "ToggleInputMode" ->
                 Consumed("None", <<CA("SetIMEMode", <<ToggleMode(mode)>>)>>)
            [] OTHER -> NotConsumed)
    [] c.state = "Composing" ->
         (CASE action.t \in {"Input", "Number"} ->
                 Consumed("Composing", <<CA("AppendText", <<action.v>>)>>)
            [] OTHER -> ComposingRows(c, action))
    [] c.state = "Previewing" ->
         (CASE action.t \in {"Input", "Number"} ->
                 Consumed("Composing", <<CA("ShrinkText", <<action.v>>)>>)
            [] OTHER -> ComposingRows(c, action))
    [] OTHER -> NotConsumed

\* process_key with the modifier gate ahead of the reserved key codes
process_key_gate_first(context, key, ctrl, c, mode) ==
  IF ~context THEN NotConsumed
  ELSE IF ctrl THEN NotConsumed
  ELSE IF KeyCode(key) = VK_IME_OFF
  THEN Consumed("None", <<CA("SetIMEMode", <<"Latin">>)>>)
  ELSE IF KeyCode(key) = VK_IME_ON
  THEN Consumed("None", <<CA("SetIMEMode", <<"Kana">>)>>)
  ELSE transition_table(c, mode, key)

\* process_key whose mode keys keep the state of the record
process_key_mode_keeps_state(context, key, ctrl, c, mode) ==
  IF ~context THEN NotConsumed
  ELSE IF KeyCode(key) = VK_IME_OFF
  THEN Consumed(c.state, <<CA("SetIMEMode", <<"Latin">>)>>)
  ELSE IF KeyCode(key) = VK_IME_ON
  THEN Consumed(c.state, <<CA("SetIMEMode", <<"Kana">>)>>)
  ELSE IF ctrl THEN NotConsumed
  ELSE transition_table(c, mode, key)

\* process_key without the modifier gate
process_key_no_gate(context, key, ctrl, c, mode) ==
  IF ~context THEN NotConsumed
  ELSE IF KeyCode(key) = VK_IME_OFF
  THEN Consumed("None", <<CA("SetIMEMode", <<"Latin">>)>>)
  ELSE IF KeyCode(key) = VK_IME_ON
  THEN Consumed("None", <<CA("SetIMEMode", <<"Kana">>)>>)
  ELSE transition_table(c, mode, key)

process_key(context, key, ctrl, c, mode) ==
  IF ~context THEN NotConsumed
  ELSE IF KeyCode(key) = VK_IME_OFF
  THEN Consumed("None", <<CA("SetIMEMode", <<"Latin">>)>>)
  ELSE IF KeyCode(key) = VK_IME_ON
  THEN Consumed("None", <<CA("SetIMEMode", <<"Kana">>)>>)
  ELSE IF ctrl THEN NotConsumed
  ELSE transition_table(c, mode, key)

\* ------------------------------------------------------------------ state
VARIABLES
  composition,         \* the Composition record of the text service
  input_mode,          \* IMEState.input_mode
  ipc_service,         \* IMEState.ipc_service is Some
  LAST_IPC_FAIL_TIME,  \* time of the last failed reconnection, seconds
  now,                 \* the wall clock, seconds
  activated,           \* Activate has run
  backend_up,          \* both pipes accept connections
  backend_buf,         \* the conversion backend's composing buffer (hiragana)
  last,                \* the outcome of the last event and, when its action
                       \* list ran to its end, its kind and the list's operations
  connector,           \* the connector loops of IPCService::new, when observed
                       \* one open at a time
  text_service,        \* the text service's registrations with the host and
                       \* the DLL's reference count
  in_flight,           \* the handle_action execution that is inside a host
                       \* call, when one is observed
  pipe_stream          \* the server's stream of pipe connections
                       \* (TonicNamedPipeServer::new), when observed

vars == <<composition, input_mode, ipc_service, LAST_IPC_FAIL_TIME, now,
          activated, backend_up, backend_buf, last, connector, text_service, in_flight,
          pipe_stream>>

\* Composition::default()
EmptyComposition ==
  [preview |-> Empty, suffix |-> Empty, raw_input |-> Empty,
   raw_hiragana |-> Empty, corresponding_count |-> 0, selection_index |-> 0,
   candidates |-> NoCandidates, state |-> "None", tip_composition |-> FALSE]

\* `at` is the time of the connection attempt an activation makes
NoEvent == [kind |-> "none", result |-> "none", ops |-> << >>, at |-> 0]

\* the operations of an action list, without their arguments
Ops(actions) == [i \in 1..Len(actions) |-> actions[i].op]

\* ---------------------------------------------------- conversion backend
\* what the backend makes of one appended character
KanaChar(c) == IF c = "Fa" THEN "Ha" ELSE c
Kana(s) == [i \in 1..Len(s) |-> KanaChar(s[i])]

\* the text of the suggestion ranked j that covers the hiragana prefix p
Convert(p, j) == [i \in 1..Len(p) |-> IF j = 1 THEN "K" ELSE "L"]

\* A response to a conversion call: the backend's buffer as hiragana and one
\* suggestion per entry of resp, the entry being the number of leading hiragana
\* characters the suggestion covers (at most the whole buffer). An empty
\* buffer has no suggestion.
Respond(buf, resp) ==
  LET n == IF buf = Empty THEN 0 ELSE Len(resp)
      cc(j) == Min2(resp[j], Len(buf))
  IN [texts |-> [j \in 1..n |-> Convert(Take(buf, cc(j)), j)],
      sub_texts |-> [j \in 1..n |-> Skip(buf, cc(j))],
      hiragana |-> buf,
      corresponding_count |-> [j \in 1..n |-> cc(j)]]

SeqsUpTo(S, n) == UNION {[1..k -> S] : k \in 0..n}
Responses == SeqsUpTo(1..MaxLen, MaxCands)

\* ------------------------------------------- the execution of one event
\* X is the interpreter's frame: the locals of handle_action, the state it
\* changes in place (IME state, host composition handle, backend), the
\* event's inputs (env) and its status.
\* status is <<where the thread is, the call the environment leaves without
\* an answer>>: "running", ended by an "error" or a "panic", or "blocked"
\* inside a call that never returns
Running(X) == X.status[1] = "running"
Blocked(X) == X.status[1] = "blocked"
\* runtime.block_on(call) with no timeout: when the service leaves this call
\* without an answer the thread waits for ever
block_on(status, name) ==
  IF status[1] = "running" /\ status[2] = name
  THEN <<"blocked", name>> ELSE status
\* a call is issued
Log(X, name) == [X EXCEPT !.trace = Append(@, name)]
\* the ? operator: the error leaves the loop; failed_at is the number of calls
\* issued when it did. A call that never returns has no error to propagate.
Fail(X) ==
  [X EXCEPT !.status = IF @[1] = "blocked" THEN @ ELSE <<"error", @[2]>>,
            !.failed_at = Len(X.trace)]
Panic(X) == [X EXCEPT !.status = <<"panic", @[2]>>]

should_try_ipc_reconnect(t, last_fail) ==
  (IF t >= last_fail THEN t - last_fail ELSE 0) >= IPC_RECONNECT_COOLDOWN_SECS

mark_ipc_reconnect_failed(X) == [X EXCEPT !.last_fail = X.env.now]

\* IPCService::new(): both pipes must connect
IPCService_new(X) == X.env.up

\* require_ipc! that connects anew whenever the cooldown has passed, with a
\* handle present too, and drops the handle when the attempt fails
require_ipc_always_reconnects(X) ==
  IF should_try_ipc_reconnect(X.env.now, X.last_fail)
  THEN IF IPCService_new(X)
       THEN [Log(X, "IPCService::new") EXCEPT !.ipc_service = TRUE, !.state_ipc = TRUE]
       ELSE [mark_ipc_reconnect_failed(Log(X, "IPCService::new"))
               EXCEPT !.ipc_service = FALSE, !.state_ipc = FALSE]
  ELSE X

\* the require_ipc! macro; the caller tests X.ipc_service afterwards
require_ipc(X) ==
  IF ~X.ipc_service /\ should_try_ipc_reconnect(X.env.now, X.last_fail)
  THEN IF IPCService_new(X)
       THEN [Log(X, "IPCService::new") EXCEPT !.ipc_service = TRUE, !.state_ipc = TRUE]
       ELSE mark_ipc_reconnect_failed(Log(X, "IPCService::new"))
  ELSE X

\* whether an RPC issued now gets its answer: the services are up and the
\* event's environment does not fail this call
RpcOk(X, name) == X.env.up /\ X.env.fail # name

\* a call issued through block_on alone. What a blocked frame records after
\* it has stopped (trace, ui_selections) is read by nothing.
Call(X, name, service) ==
  [X EXCEPT !.trace = Append(@, name), !.status = block_on(@, service)]

\* a call on the candidate window service; [ok, X]. The environment fails the
\* window service as a whole ("window").
ui_call(X, name) == [ok |-> RpcOk(X, "window"), X |-> Call(X, name, "window")]

\* set_selection(selection_index) on the candidate window service;
\* ui_selections: the indexes sent during the event
set_selection(X) ==
  [ok |-> RpcOk(X, "window"),
   X |-> [X EXCEPT !.trace = Append(@, "set_selection"),
                   !.status = block_on(@, "window"),
                   !.ui_selections = Append(@, X.selection_index)]]

\* calls on the conversion service; [ok, X, candidates]. append_text waits
\* under time::timeout(IPC_TIMEOUT): an answer that never comes is an error.
\* The others wait in block_on alone.
append_text(X, text) ==
  IF RpcOk(X, "append_text")
  THEN LET buf == X.buf \o Kana(text)
       IN [ok |-> TRUE, X |-> [Log(X, "append_text") EXCEPT !.buf = buf],
           candidates |-> Respond(buf, X.env.resp)]
  ELSE [ok |-> FALSE, X |-> Log(X, "append_text"), candidates |-> NoCandidates]

remove_text(X) ==
  IF RpcOk(X, "remove_text")
  THEN LET buf == DropLast(X.buf)
       IN [ok |-> TRUE, X |-> [Log(X, "remove_text") EXCEPT !.buf = buf],
           candidates |-> Respond(buf, X.env.resp)]
  ELSE [ok |-> FALSE, X |-> Call(X, "remove_text", "remove_text"),
        candidates |-> NoCandidates]

shrink_text(X, offset) ==
  IF RpcOk(X, "shrink_text")
  THEN LET buf == Skip(X.buf, offset)
       IN [ok |-> TRUE, X |-> [Log(X, "shrink_text") EXCEPT !.buf = buf],
           candidates |-> Respond(buf, X.env.resp)]
  ELSE [ok |-> FALSE, X |-> Call(X, "shrink_text", "shrink_text"),
        candidates |-> NoCandidates]

clear_text(X) ==
  IF RpcOk(X, "clear_text")
  THEN [ok |-> TRUE, X |-> [Log(X, "clear_text") EXCEPT !.buf = Empty]]
  ELSE [ok |-> FALSE, X |-> Call(X, "clear_text", "clear_text")]

\* try_ipc! that goes through the reconnect step of require_ipc! first
try_ipc_reconnects(X, name) ==
  LET B == require_ipc(X)
  IN IF B.ipc_service
     THEN IF name = "clear_text"
          THEN (IF Blocked(B) THEN B ELSE clear_text(B).X)
          ELSE ui_call(B, name).X
     ELSE B

\* the try_ipc! macro: the call is made when a client exists, its result dropped
try_ipc(X, name) ==
  IF X.ipc_service
  THEN IF name = "clear_text"
       THEN (IF Blocked(X) THEN X ELSE clear_text(X).X)
       ELSE ui_call(X, name).X
  ELSE X

\* calls on the host framework: each may be rejected
HostCall(X, name) ==
  IF X.env.fail = name THEN Fail(Log(X, name)) ELSE Log(X, name)

start_composition(X) ==
  LET Y == HostCall(X, "start_composition")
  IN IF Running(Y) THEN [Y EXCEPT !.tip_composition = TRUE] ELSE Y

end_composition(X) ==
  LET Y == HostCall(X, "end_composition")
  IN IF Running(Y) THEN [Y EXCEPT !.tip_composition = FALSE] ELSE Y

\* set_texts: the (text, sub_text) pairs the host accepted during the event
set_text(X, text, sub_text) ==
  LET Y == HostCall(X, "set_text")
  IN IF Running(Y) THEN [Y EXCEPT !.set_texts = Append(@, <<text, sub_text>>)] ELSE Y
shift_start(X, from, to) == HostCall(X, "shift_start")
update_pos(X) == HostCall(X, "update_pos")

\* --------------------------------------------------------- client actions
ClearFields(X) ==
  [X EXCEPT !.selection_index = 0, !.corresponding_count = 0,
            !.preview = Empty, !.suffix = Empty,
            !.raw_input = Empty, !.raw_hiragana = Empty]

\* mode-dependent shaping of the appended text
Shape(mode, text) == IF mode = "Kana" THEN to_fullwidth(text, FALSE) ELSE text

\* vec[i as usize] exists (a negative i32 wraps beyond any length)
InBounds(vec, i) == 0 <= i /\ i < Len(vec)
At(vec, i) == vec[i + 1]

\* Project without the assignment of raw_hiragana
Project_keeps_hiragana(X, cands, i) ==
  [X EXCEPT !.corresponding_count = At(cands.corresponding_count, i),
            !.preview = At(cands.texts, i),
            !.suffix = At(cands.sub_texts, i)]

\* preview, suffix, raw_hiragana and corresponding_count from candidates[i]
Project(X, cands, i) ==
  [X EXCEPT !.corresponding_count = At(cands.corresponding_count, i),
            !.preview = At(cands.texts, i),
            !.suffix = At(cands.sub_texts, i),
            !.raw_hiragana = cands.hiragana]

DoStartComposition(X) ==
  LET A == start_composition(X) IN
  IF ~Running(A) THEN A ELSE
  LET B == update_pos(A) IN
  IF ~Running(B) THEN B ELSE
  try_ipc(B, "show_window")

DoEndComposition(X) ==
  LET A == end_composition(X) IN
  IF ~Running(A) THEN A ELSE
  try_ipc(try_ipc(try_ipc(ClearFields(A), "hide_window"), "set_candidates"),
          "clear_text")

DoAppendText(X, text) ==
  LET A == [X EXCEPT !.raw_input = @ \o text]
      fullwidth_text == Shape(X.mode, text)
      B == require_ipc(A)
  IN IF B.ipc_service
     THEN LET r == append_text(B, fullwidth_text) IN
          IF ~r.ok THEN Fail(r.X) ELSE
          LET C == [r.X EXCEPT !.candidates = r.candidates] IN
          IF ~InBounds(r.candidates.texts, C.selection_index) THEN Panic(C) ELSE
          LET D == Project(C, r.candidates, C.selection_index)
              E == set_text(D, D.preview, D.suffix)
          IN IF ~Running(E) THEN E ELSE
             set_selection(ui_call(E, "set_candidates").X).X
     ELSE LET C == [B EXCEPT !.raw_hiragana = @ \o fullwidth_text]
              D == [C EXCEPT !.preview = C.raw_hiragana, !.suffix = Empty,
                             !.corresponding_count = chars_count(C.raw_hiragana)]
          IN set_text(D, D.preview, Empty)

\* RemoveText that leaves raw_input as it is when the backend answers
DoRemoveText_keeps_raw_input(X) ==
  LET B == require_ipc(X)
  IN IF B.ipc_service
     THEN LET r == remove_text(B) IN
          IF ~r.ok THEN Fail(r.X) ELSE
          LET cands == r.candidates
              i == r.X.selection_index
              has == InBounds(cands.texts, i)
              cc == IF has THEN At(cands.corresponding_count, i) ELSE 0
              C == [r.X EXCEPT !.candidates = cands,
                               !.corresponding_count = cc,
                               !.preview = IF has THEN At(cands.texts, i) ELSE Empty,
                               !.suffix = IF has THEN At(cands.sub_texts, i) ELSE Empty,
                               !.raw_hiragana = cands.hiragana]
              D == set_text(C, C.preview, C.suffix)
          IN IF ~Running(D) THEN D ELSE
             set_selection(ui_call(D, "set_candidates").X).X
     ELSE LET C == [B EXCEPT !.raw_hiragana = DropLast(@),
                             !.raw_input = DropLast(@)]
              D == [C EXCEPT !.preview = C.raw_hiragana, !.suffix = Empty,
                             !.corresponding_count = chars_count(C.raw_hiragana)]
          IN set_text(D, D.preview, Empty)

DoRemoveText(X) ==
  LET B == require_ipc(X)
  IN IF B.ipc_service
     THEN LET r == remove_text(B) IN
          IF ~r.ok THEN Fail(r.X) ELSE
          LET cands == r.candidates
              i == r.X.selection_index
              has == InBounds(cands.texts, i)
              cc == IF has THEN At(cands.corresponding_count, i) ELSE 0
              C == [r.X EXCEPT !.candidates = cands,
                               !.corresponding_count = cc,
                               !.raw_input = Take(@, cc),
                               !.preview = IF has THEN At(cands.texts, i) ELSE Empty,
                               !.suffix = IF has THEN At(cands.sub_texts, i) ELSE Empty,
                               !.raw_hiragana = cands.hiragana]
              D == set_text(C, C.preview, C.suffix)
          IN IF ~Running(D) THEN D ELSE
             set_selection(ui_call(D, "set_candidates").X).X
     ELSE LET C == [B EXCEPT !.raw_hiragana = DropLast(@),
                             !.raw_input = DropLast(@)]
              D == [C EXCEPT !.preview = C.raw_hiragana, !.suffix = Empty,
                             !.corresponding_count = chars_count(C.raw_hiragana)]
          IN set_text(D, D.preview, Empty)

DoMoveCursor(X, offset) == X

\* SetIMEMode that also tells the candidate window the mode
DoSetIMEMode_with_rpc(X, mode) ==
  try_ipc(ClearFields([X EXCEPT !.input_mode = mode]), "set_input_mode")

DoSetIMEMode(X, mode) == ClearFields([X EXCEPT !.input_mode = mode])

\* NewSelection without the upper clamp
NewSelection_unclamped(selection, len, i) ==
  CASE selection = "Up" -> Max2(0, i - 1)
    [] selection = "Down" -> i + 1

NewSelection(selection, len, i) ==
  CASE selection = "Up" -> Max2(0, i - 1)
    [] selection = "Down" -> Min2(len - 1, i + 1)

\* SetSelection that shows the candidate at the index it started from
DoSetSelection_stale(X, selection) ==
  LET cands == X.record.candidates
      A == [X EXCEPT !.selection_index =
                        NewSelection(selection, Len(cands.texts), @)]
      B == require_ipc(A)
  IN IF ~B.ipc_service THEN Fail(B) ELSE
     LET r == set_selection(B) IN
     IF ~r.ok THEN Fail(r.X) ELSE
     IF ~InBounds(cands.texts, X.selection_index) THEN Panic(r.X) ELSE
     LET C == Project(r.X, cands, X.selection_index)
     IN set_text(C, C.preview, C.suffix)

DoSetSelection(X, selection) ==
  LET cands == X.record.candidates
      A == [X EXCEPT !.selection_index =
                        NewSelection(selection, Len(cands.texts), @)]
      B == require_ipc(A)
  IN IF ~B.ipc_service THEN Fail(B) ELSE
     LET r == set_selection(B) IN
     IF ~r.ok THEN Fail(r.X) ELSE
     IF ~InBounds(cands.texts, A.selection_index) THEN Panic(r.X) ELSE
     LET C == Project(r.X, cands, A.selection_index)
     IN set_text(C, C.preview, C.suffix)

\* ShrinkText that leaves the requested transition as it is
DoShrinkText_keeps_transition(X, text) ==
  LET A == [X EXCEPT !.raw_input = Skip(@ \o text, X.corresponding_count)]
      B == require_ipc(A)
  IN IF ~B.ipc_service THEN Fail(B) ELSE
     LET r1 == shrink_text(B, B.corresponding_count) IN
     IF ~r1.ok THEN Fail(r1.X) ELSE
     LET r2 == append_text(require_ipc(r1.X), Shape(X.mode, text)) IN
     IF ~r2.ok THEN Fail(r2.X) ELSE
     LET C == [r2.X EXCEPT !.candidates = r2.candidates, !.selection_index = 0] IN
     IF ~InBounds(r2.candidates.texts, 0) THEN Panic(C) ELSE
     LET D == shift_start(C, C.preview, At(r2.candidates.texts, 0)) IN
     IF ~Running(D) THEN D ELSE
     LET E == Project(D, r2.candidates, 0)
         r3 == ui_call(require_ipc(E), "set_candidates")
     IN IF ~r3.ok THEN Fail(r3.X) ELSE
        LET r4 == set_selection(require_ipc(r3.X)) IN
        IF ~r4.ok THEN Fail(r4.X) ELSE
        LET F == update_pos(r4.X) IN
        F

DoShrinkText(X, text) ==
  LET A == [X EXCEPT !.raw_input = Skip(@ \o text, X.corresponding_count)]
      B == require_ipc(A)
  IN IF ~B.ipc_service THEN Fail(B) ELSE
     LET r1 == shrink_text(B, B.corresponding_count) IN
     IF ~r1.ok THEN Fail(r1.X) ELSE
     LET r2 == append_text(require_ipc(r1.X), Shape(X.mode, text)) IN
     IF ~r2.ok THEN Fail(r2.X) ELSE
     LET C == [r2.X EXCEPT !.candidates = r2.candidates, !.selection_index = 0] IN
     IF ~InBounds(r2.candidates.texts, 0) THEN Panic(C) ELSE
     LET D == shift_start(C, C.preview, At(r2.candidates.texts, 0)) IN
     IF ~Running(D) THEN D ELSE
     LET E == Project(D, r2.candidates, 0)
         r3 == ui_call(require_ipc(E), "set_candidates")
     IN IF ~r3.ok THEN Fail(r3.X) ELSE
        LET r4 == set_selection(require_ipc(r3.X)) IN
        IF ~r4.ok THEN Fail(r4.X) ELSE
        LET F == update_pos(r4.X) IN
        IF ~Running(F) THEN F ELSE [F EXCEPT !.transition = "Composing"]

\* SetTextWithType that also stores the replacement in preview
DoSetTextWithType_preview(X, set_type) ==
  LET text == CASE set_type = "Hiragana" -> X.raw_hiragana
                [] set_type = "Katakana" -> to_katakana(X.raw_hiragana)
                [] set_type = "HalfKatakana" -> to_half_katakana(X.raw_hiragana)
                [] set_type = "FullLatin" -> to_fullwidth(X.raw_input, TRUE)
                [] set_type = "HalfLatin" -> to_halfwidth(X.raw_input)
  IN set_text([X EXCEPT !.preview = text], text, Empty)

\* SetTextWithType that asks for the client before it sets the text
DoSetTextWithType_require_ipc(X, set_type) ==
  LET Y == require_ipc(X)
      text == CASE set_type = "Hiragana" -> Y.raw_hiragana
                [] set_type = "Katakana" -> to_katakana(Y.raw_hiragana)
                [] set_type = "HalfKatakana" -> to_half_katakana(Y.raw_hiragana)
                [] set_type = "FullLatin" -> to_fullwidth(Y.raw_input, TRUE)
                [] set_type = "HalfLatin" -> to_halfwidth(Y.raw_input)
  IN set_text(Y, text, Empty)

DoSetTextWithType(X, set_type) ==
  LET text == CASE set_type = "Hiragana" -> X.raw_hiragana
                [] set_type = "Katakana" -> to_katakana(X.raw_hiragana)
                [] set_type = "HalfKatakana" -> to_half_katakana(X.raw_hiragana)
                [] set_type = "FullLatin" -> to_fullwidth(X.raw_input, TRUE)
                [] set_type = "HalfLatin" -> to_halfwidth(X.raw_input)
  IN set_text(X, text, Empty)

DoAction(X, action) ==
  CASE action.op = "StartComposition" -> DoStartComposition(X)
    [] action.op = "EndComposition" -> DoEndComposition(X)
    [] action.op = "AppendText" -> DoAppendText(X, action.arg)
    [] action.op = "RemoveText" -> DoRemoveText(X)
    [] action.op = "MoveCursor" -> DoMoveCursor(X, action.arg[1])
    [] action.op = "SetIMEMode" -> DoSetIMEMode(X, action.arg[1])
    [] action.op = "SetSelection" -> DoSetSelection(X, action.arg[1])
    [] action.op = "ShrinkText" -> DoShrinkText(X, action.arg)
    [] action.op = "SetTextWithType" -> DoSetTextWithType(X, action.arg[1])

\* the for loop over the action list: an error or a panic ends it
RECURSIVE RunActions(_, _)
RunActions(X, actions) ==
  IF actions = << >> \/ ~Running(X) THEN X
  ELSE RunActions(DoAction(X, Head(actions)), Tail(actions))

\* the frame at the start of handle_action
Frame(actions, transition, env) ==
  [preview |-> composition.preview, suffix |-> composition.suffix,
   raw_input |-> composition.raw_input,
   raw_hiragana |-> composition.raw_hiragana,
   corresponding_count |-> composition.corresponding_count,
   candidates |-> composition.candidates,
   selection_index |-> composition.selection_index,
   ipc_service |-> ipc_service, transition |-> transition,
   mode |-> input_mode,
   record |-> composition,
   tip_composition |-> composition.tip_composition,
   input_mode |-> input_mode, state_ipc |-> ipc_service,
   last_fail |-> LAST_IPC_FAIL_TIME, buf |-> backend_buf,
   env |-> env, status |-> <<"running", IF env.hang THEN env.fail ELSE "none">>,
   trace |-> << >>, failed_at |-> 0,
   set_texts |-> << >>, ui_selections |-> << >>]

\* the write-back at the end of handle_action
WriteBack(X) ==
  [composition EXCEPT !.preview = X.preview, !.state = X.transition,
                      !.selection_index = X.selection_index,
                      !.raw_input = X.raw_input,
                      !.raw_hiragana = X.raw_hiragana,
                      !.candidates = X.candidates, !.suffix = X.suffix,
                      !.corresponding_count = X.corresponding_count,
                      !.tip_composition = X.tip_composition]

\* the write-back made whatever the outcome of the list
RecordAfter_always(X) == WriteBack(X)

\* the record after handle_action: written back when the list ran to its end,
\* else only what the host calls changed in place
RecordAfter(X) ==
  IF Running(X) THEN WriteBack(X)
  ELSE [composition EXCEPT !.tip_composition = X.tip_composition]

\* ------------------------------------------------------------- the steps
\* the stream of pipe connections has not been created
NoStream ==
  [pc |-> "none", instances |-> << >>, accepted |-> << >>, items |-> << >>]

\* no execution of handle_action is inside a host call
NoRun ==
  [active |-> FALSE, overlapped |-> FALSE, kind |-> "none", actions |-> << >>,
   snapshot |-> EmptyComposition, X |-> << >>]

\* the text service before its first activation: nothing registered, the DLL
\* not referenced
NoService ==
  [dll_refs |-> 0, tid |-> 0, thread_mgr |-> FALSE, key_sink |-> FALSE,
   cookie |-> FALSE, layout_sink |-> FALSE, atom |-> FALSE, langbar |-> FALSE,
   ipc_attempts |-> 0]

\* no connector is being observed
NoConnector ==
  [pipe |-> "none", pc |-> "idle", retries |-> 0, busy |-> 0, slept |-> 0,
   result |-> "none", endpoint |-> "any"]

Init ==
  /\ connector = NoConnector
  /\ text_service = NoService
  /\ in_flight = NoRun
  /\ pipe_stream = NoStream
  /\ composition = EmptyComposition
  /\ input_mode \in {"Kana", "Latin"}
  /\ ipc_service = FALSE
  /\ LAST_IPC_FAIL_TIME = 0
  /\ now = IPC_RECONNECT_COOLDOWN_SECS
  /\ activated = FALSE
  /\ backend_up \in BOOLEAN
  /\ backend_buf = Empty
  /\ last = NoEvent

\* the thread still takes events: it has neither panicked nor stopped for
\* ever inside a call
Alive == last.result \notin {"panic", "blocked"}

\* ITfTextInputProcessor::Activate: one attempt to build the client, probed
\* with append_text(""); the input mode is set to Kana
Activate(probe_fail) ==
  /\ ~activated
  /\ activated' = TRUE
  /\ ipc_service' = (backend_up /\ ~probe_fail)
  /\ input_mode' = "Kana"
  /\ last' = [NoEvent EXCEPT !.kind = "activate", !.result = "ok", !.at = now]
  /\ UNCHANGED <<composition, LAST_IPC_FAIL_TIME, now, backend_up, backend_buf,
                 connector, text_service, in_flight, pipe_stream>>

\* the calls an action list may issue, any one of which the event's
\* environment may fail
CallsOf(op) ==
  CASE op = "StartComposition" -> {"start_composition", "update_pos", "window"}
    [] op = "EndComposition" -> {"end_composition", "window", "clear_text"}
    [] op = "AppendText" -> {"append_text", "set_text", "window"}
    [] op = "RemoveText" -> {"remove_text", "set_text", "window"}
    [] op = "SetSelection" -> {"window", "set_text"}
    [] op = "ShrinkText" -> {"shrink_text", "append_text", "shift_start",
                             "window", "update_pos"}
    [] op = "SetTextWithType" -> {"set_text"}
    [] OTHER -> {}

FailsFor(actions) ==
  {"none"} \cup UNION {CallsOf(actions[i].op) : i \in 1..Len(actions)}

\* the responses to draw from: one when the list makes no conversion call
\* or fails before it has its answer
RespFor(actions, fail) ==
  IF /\ \E i \in 1..Len(actions) :
          actions[i].op \in {"AppendText", "RemoveText", "ShrinkText"}
     /\ fail \notin {"start_composition", "append_text", "remove_text", "shrink_text"}
  THEN Responses ELSE {<< >>}

Env(fail, resp) ==
  [fail |-> fail, hang |-> FALSE, resp |-> resp, up |-> backend_up, now |-> now]

\* the calls made over the pipes
RpcCalls == {"append_text", "remove_text", "shrink_text", "clear_text", "window"}

\* the environment whose service accepts the call `fail` and never answers
\* it; the answers of the calls before it are of one candidate
EnvHang(fail) == [Env(fail, <<1>>) EXCEPT !.hang = TRUE]

\* the environments in which the call `fail` of an action list gets no
\* answer: refused, with every answer to the calls before it, or left waiting
EnvsFor(actions, fail) ==
  {Env(fail, resp) : resp \in RespFor(actions, fail)}
    \cup (IF fail \in RpcCalls THEN {EnvHang(fail)} ELSE {})

\* the composition grows only up to MaxLen characters
WithinBounds(actions) ==
  (\E i \in 1..Len(actions) : actions[i].op \in {"AppendText", "ShrinkText"}
                              /\ actions[i].arg # Empty)
    => /\ Len(composition.raw_input) < MaxLen
       /\ Len(composition.raw_hiragana) < MaxLen
       /\ Len(backend_buf) < MaxLen

\* an event that reports every list it ran as consumed, failed or not
EventRecord_always_consumed(kind, actions, X) ==
  [NoEvent EXCEPT !.kind = kind, !.result = "consumed", !.ops = Ops(actions)]

\* what the caller of handle_action gets: Ok when the list ran to its end
\* (handle_key then returns Ok(true)), else the failure of the list
EventRecord(kind, actions, X) ==
  IF Running(X)
  THEN [NoEvent EXCEPT !.kind = kind, !.result = "consumed", !.ops = Ops(actions)]
  ELSE [NoEvent EXCEPT !.result = X.status[1]]

\* handle_action, as one step of the state
handle_action(kind, actions, transition, env) ==
  LET X == RunActions(Frame(actions, transition, env), actions)
  IN /\ composition' = RecordAfter(X)
     /\ input_mode' = X.input_mode
     /\ ipc_service' = X.state_ipc
     /\ LAST_IPC_FAIL_TIME' = X.last_fail
     /\ backend_buf' = X.buf
     /\ last' = EventRecord(kind, actions, X)
     /\ UNCHANGED <<now, activated, backend_up, connector, text_service, in_flight,
                 pipe_stream>>

\* handle_key: one key event
handle_key(context, key, ctrl) ==
  /\ activated /\ Alive
  /\ LET pk == process_key(context, key, ctrl, composition, input_mode)
     IN IF ~pk.consumed
        THEN /\ last' = [NoEvent EXCEPT !.result = "not_consumed"]
             /\ UNCHANGED <<composition, input_mode, ipc_service,
                            LAST_IPC_FAIL_TIME, now, activated, backend_up,
                            backend_buf, connector, text_service, in_flight,
                            pipe_stream>>
        ELSE /\ WithinBounds(pk.actions)
             /\ \E fail \in FailsFor(pk.actions) :
                \E env \in EnvsFor(pk.actions, fail) :
                  handle_action("key", pk.actions, pk.transition, env)

\* ITfCompositionSink::OnCompositionTerminated: the host ended the composition
OnCompositionTerminated ==
  /\ activated /\ Alive
  /\ composition.tip_composition
  /\ LET actions == <<CA("EndComposition", Empty)>>
     IN \E fail \in FailsFor(actions) :
          \E env \in EnvsFor(actions, fail) :
            handle_action("terminated", actions, "None", env)

\* time passes; the clock is read only by should_try_ipc_reconnect, which is
\* evaluated only while the client is absent, and once the cooldown has
\* elapsed more time changes nothing
Tick ==
  /\ ~ipc_service
  /\ ~should_try_ipc_reconnect(now, LAST_IPC_FAIL_TIME)
  /\ now + IPC_RECONNECT_COOLDOWN_SECS \div 2 <= MaxTime
  /\ now' = now + IPC_RECONNECT_COOLDOWN_SECS \div 2
  /\ UNCHANGED <<composition, input_mode, ipc_service, LAST_IPC_FAIL_TIME,
                 activated, backend_up, backend_buf, last, connector, text_service, in_flight,
                 pipe_stream>>

\* the pipes stop accepting connections. Only IPCService::new reads this, and
\* it runs only while the client is absent; once a client exists, whether a
\* call is answered is drawn per event (Env.fail).
BackendDown ==
  /\ backend_up
  /\ ~ipc_service
  /\ backend_up' = FALSE
  /\ UNCHANGED <<composition, input_mode, ipc_service, LAST_IPC_FAIL_TIME, now,
                 activated, backend_buf, last, connector, text_service, in_flight,
                 pipe_stream>>

\* the pipes accept connections again
BackendUp ==
  /\ ~backend_up
  /\ ~ipc_service
  /\ backend_up' = TRUE
  /\ UNCHANGED <<composition, input_mode, ipc_service, LAST_IPC_FAIL_TIME, now,
                 activated, backend_buf, last, connector, text_service, in_flight,
                 pipe_stream>>

\* without a context every key is refused alike: one stands for all
KeyEvent ==
  \/ \E key \in Keys, ctrl \in BOOLEAN : handle_key(TRUE, key, ctrl)
  \/ handle_key(FALSE, UA("Unhandled", ""), FALSE)

ActivateStep == \E probe_fail \in BOOLEAN : Activate(probe_fail)

Next ==
  \/ ActivateStep
  \/ KeyEvent
  \/ OnCompositionTerminated
  \/ Tick
  \/ BackendDown
  \/ BackendUp

Spec == Init /\ [][Next]_vars

\* the same steps from a record in any state of CompositionState, the reserved
\* Selecting included (no code assigns it), with the service activated
InitTable ==
  /\ connector = NoConnector
  /\ text_service = NoService
  /\ in_flight = NoRun
  /\ pipe_stream = NoStream
  /\ composition \in {[EmptyComposition EXCEPT !.state = st] : st \in {"None", "Selecting"}}
  /\ input_mode \in {"Kana", "Latin"}
  /\ ipc_service \in BOOLEAN
  /\ LAST_IPC_FAIL_TIME = 0
  /\ now = IPC_RECONNECT_COOLDOWN_SECS
  /\ activated = TRUE
  /\ backend_up = TRUE
  /\ backend_buf = Empty
  /\ last = NoEvent

SpecTable == InitTable /\ [][KeyEvent]_vars

\* ------------------------------------------- the connectors of IPCService::new
\* IPCService::new opens the pipe azookey_server, then the pipe azookey_ui,
\* each in a loop of its own:
\*   pc        "open": about to call ClientOptions::open; "sleep": inside
\*             time::sleep; "connected": both pipes open; "failed": Err returned
\*   retries   the loop's counter of not-found results
\*   busy      busy results seen by the loop (counted up to MaxBusy)
\*   slept     milliseconds slept since the last call of open
\*   result    the result of the last call of open
\*   endpoint  "not_found": no server ever creates the pipes; "any": each call
\*             of open may give any result
\* let mut retries = 0u32, at the start of each connector
StartConnector(pipe, endpoint) ==
  [pipe |-> pipe, pc |-> "open", retries |-> 0, busy |-> 0, slept |-> 0,
   result |-> "none", endpoint |-> endpoint]

Others == <<composition, input_mode, ipc_service, LAST_IPC_FAIL_TIME, now,
            activated, backend_up, backend_buf, last, text_service,
            in_flight, pipe_stream>>

\* Ok(client) => break client: on to the second pipe, or done
OpenOk ==
  /\ connector.pc = "open" /\ connector.endpoint = "any"
  /\ connector' =
       IF connector.pipe = "azookey_server"
       THEN [StartConnector("azookey_ui", connector.endpoint)
               EXCEPT !.result = "ok"]
       ELSE [connector EXCEPT !.pc = "connected", !.result = "ok", !.slept = 0]
  /\ UNCHANGED Others

\* busy, with the not-found counter also charged
OpenBusy_counted ==
  /\ connector.pc = "open" /\ connector.endpoint = "any"
  /\ connector.retries + 1 < MAX_CONNECT_RETRIES
  /\ connector' = [connector EXCEPT !.pc = "sleep", !.result = "busy",
                                    !.slept = 0, !.retries = @ + 1,
                                    !.busy = Min2(@ + 1, MaxBusy)]
  /\ UNCHANGED Others

\* ERROR_PIPE_BUSY: nothing is counted, the loop goes on to its sleep
OpenBusy ==
  /\ connector.pc = "open" /\ connector.endpoint = "any"
  /\ connector' = [connector EXCEPT !.pc = "sleep", !.result = "busy",
                                    !.slept = 0,
                                    !.busy = Min2(@ + 1, MaxBusy)]
  /\ UNCHANGED Others

\* ERROR_FILE_NOT_FOUND: retries += 1; Err once retries >= MAX_CONNECT_RETRIES
OpenNotFound ==
  /\ connector.pc = "open"
  /\ LET retries == connector.retries + 1
     IN connector' = [connector EXCEPT
                        !.retries = retries, !.result = "not_found", !.slept = 0,
                        !.pc = IF retries >= MAX_CONNECT_RETRIES
                               THEN "failed" ELSE "sleep"]
  /\ UNCHANGED Others

\* any other error: Err at once
OpenOtherError ==
  /\ connector.pc = "open" /\ connector.endpoint = "any"
  /\ connector' = [connector EXCEPT !.pc = "failed", !.result = "other",
                                    !.slept = 0]
  /\ UNCHANGED Others

\* time::sleep(CONNECT_RETRY_DELAY), then the loop calls open again
Sleep ==
  /\ connector.pc = "sleep"
  /\ connector' = [connector EXCEPT !.pc = "open", !.slept = CONNECT_RETRY_DELAY]
  /\ UNCHANGED Others

InitOpen ==
  /\ connector \in {StartConnector("azookey_server", e) : e \in {"any", "not_found"}}
  /\ text_service = NoService
  /\ in_flight = NoRun
  /\ pipe_stream = NoStream
  /\ composition = EmptyComposition
  /\ input_mode = "Kana"
  /\ ipc_service = FALSE
  /\ LAST_IPC_FAIL_TIME = 0
  /\ now = IPC_RECONNECT_COOLDOWN_SECS
  /\ activated = FALSE
  /\ backend_up = TRUE
  /\ backend_buf = Empty
  /\ last = NoEvent

NextOpen ==
  \/ OpenOk
  \/ OpenBusy
  \/ OpenNotFound
  \/ OpenOtherError
  \/ Sleep

\* the runtime runs the connector until it returns
SpecOpen == InitOpen /\ [][NextOpen]_vars /\ WF_vars(NextOpen)

\* ------------------------------------- activation and deactivation by the host
\* the host calls of Activate that may be rejected, in the order they are made
\* ("ptim" is the thread manager being null)
ActivateCalls ==
  <<"ptim", "AdviseKeyEventSink", "AdviseSink", "advise_text_layout_sink",
    "CoCreateInstance", "RegisterGUID", "AddItem">>

\* the host calls of Deactivate that may be rejected, in order
DeactivateCalls ==
  <<"end_composition", "UnadviseKeyEventSink", "RemoveItem", "UnadviseSink",
    "unadvise_text_layout_sink">>

\* the position of a call in a list of calls
Pos(calls, name) == CHOOSE i \in 1..Len(calls) : calls[i] = name

\* the handler gets past the call `name`: no call up to it is rejected
Passed(calls, fail, name) == fail = "none" \/ Pos(calls, fail) > Pos(calls, name)

\* thread ids the host hands out
Tids == {1, 2}

\* ITfTextInputProcessor::Activate(ptim, tid), the whole handler: the DLL
\* reference, one IPCService::new with its probe (stored on success, logged
\* on failure), then the registrations, each of which may be rejected and
\* ends the handler with what was done before it left in place. `ptim` is
\* whether the thread manager is given, `focus` whether GetFocus has a
\* document manager.
ITfTextInputProcessor_Activate(ptim, tid, probe_fail, focus, fail) ==
  /\ ~text_service.key_sink
  /\ text_service.dll_refs < MaxRefs
  /\ ptim = (fail # "ptim")
  /\ fail = "advise_text_layout_sink" => focus
  /\ text_service' =
       [text_service EXCEPT
          !.dll_refs = @ + 1,
          !.ipc_attempts = 1,
          !.tid = tid,
          !.thread_mgr = @ \/ Passed(ActivateCalls, fail, "ptim"),
          !.key_sink = @ \/ Passed(ActivateCalls, fail, "AdviseKeyEventSink"),
          !.cookie = @ \/ Passed(ActivateCalls, fail, "AdviseSink"),
          !.layout_sink =
             @ \/ (focus /\ Passed(ActivateCalls, fail, "advise_text_layout_sink")),
          !.atom = @ \/ Passed(ActivateCalls, fail, "RegisterGUID"),
          !.langbar = @ \/ Passed(ActivateCalls, fail, "AddItem")]
  /\ ipc_service' = (ipc_service \/ (backend_up /\ ~probe_fail))
  /\ input_mode' = IF Passed(ActivateCalls, fail, "AdviseSink")
                   THEN "Kana" ELSE input_mode
  /\ activated' = text_service'.key_sink
  /\ last' = [NoEvent EXCEPT !.kind = "activate",
                             !.result = IF fail = "none" THEN "ok" ELSE "error",
                             !.at = now]
  /\ UNCHANGED <<composition, LAST_IPC_FAIL_TIME, now, backend_up, backend_buf,
                 connector, in_flight, pipe_stream>>

\* ITfTextInputProcessor::Deactivate, the whole handler, called after an
\* Activate that took its DLL reference: the DLL reference is released first; without a thread manager it returns Ok there; else the
\* composition is ended and the registrations are removed, each removal may
\* be rejected and ends the handler
ITfTextInputProcessor_Deactivate(fail) ==
  /\ text_service.dll_refs > 0
  /\ fail # "none" => text_service.thread_mgr
  /\ fail = "UnadviseSink" => text_service.cookie
  /\ LET done == fail = "none" /\ text_service.thread_mgr
         past(name) == text_service.thread_mgr
                         /\ Passed(DeactivateCalls, fail, name)
     IN /\ text_service' =
             [text_service EXCEPT
                !.dll_refs = @ - 1,
                !.key_sink = @ /\ ~past("UnadviseKeyEventSink"),
                !.langbar = @ /\ ~past("RemoveItem"),
                !.cookie = @ /\ ~past("RemoveItem"),
                !.layout_sink = @ /\ ~past("unadvise_text_layout_sink"),
                !.atom = @ /\ ~done,
                !.tid = IF done THEN 0 ELSE @,
                !.thread_mgr = @ /\ ~done]
        /\ composition' =
             [composition EXCEPT !.tip_composition = @ /\ ~past("end_composition")]
  /\ activated' = text_service'.key_sink
  /\ last' = [NoEvent EXCEPT !.kind = "deactivate",
                             !.result = IF fail = "none" THEN "ok" ELSE "error"]
  /\ UNCHANGED <<input_mode, ipc_service, LAST_IPC_FAIL_TIME, now, backend_up,
                 backend_buf, connector, in_flight, pipe_stream>>

HostActivates ==
  \E ptim \in BOOLEAN, tid \in Tids, probe_fail \in BOOLEAN, focus \in BOOLEAN :
    \E fail \in {"none"} \cup {ActivateCalls[i] : i \in 1..Len(ActivateCalls)} :
      ITfTextInputProcessor_Activate(ptim, tid, probe_fail, focus, fail)

HostDeactivates ==
  \E fail \in {"none"} \cup {DeactivateCalls[i] : i \in 1..Len(DeactivateCalls)} :
    ITfTextInputProcessor_Deactivate(fail)

\* the pipes start or stop accepting connections while the service is driven
\* by the host
PipesChange ==
  /\ backend_up' = ~backend_up
  /\ UNCHANGED <<composition, input_mode, ipc_service, LAST_IPC_FAIL_TIME, now,
                 activated, backend_buf, last, connector, text_service, in_flight,
                 pipe_stream>>

NextLife ==
  \/ HostActivates
  \/ HostDeactivates
  \/ PipesChange

\* the host activating and deactivating the text service, from its creation
SpecLife == Init /\ [][NextLife]_vars

\* ------------------------------- the host calling back during a host call
\* handle_action holds no borrow of the text service between its snapshot
\* and its write-back, so a callback the host makes from inside a host call
\* runs its own handle_action in between. The service is observed offline
\* (no client, pipes down, cooldown running), where a list makes host calls
\* and no call on the pipes.
HostCalls ==
  {"start_composition", "end_composition", "set_text", "shift_start", "update_pos"}

MakesHostCall(X) == \E i \in 1..Len(X.trace) : X.trace[i] \in HostCalls

\* handle_action up to a host call: the record is cloned, and the list is run
\* on the clone
BeginAction(key) ==
  /\ activated /\ Alive /\ ~in_flight.active
  /\ LET pk == process_key(TRUE, key, FALSE, composition, input_mode)
         X == RunActions(Frame(pk.actions, pk.transition, Env("none", << >>)),
                         pk.actions)
     IN /\ pk.consumed
        /\ WithinBounds(pk.actions)
        /\ MakesHostCall(X)
        /\ in_flight' = [active |-> TRUE, overlapped |-> FALSE, kind |-> "key",
                         actions |-> pk.actions, snapshot |-> composition,
                         X |-> X]
  /\ UNCHANGED <<composition, input_mode, ipc_service, LAST_IPC_FAIL_TIME, now,
                 activated, backend_up, backend_buf, last, connector,
                 text_service, pipe_stream>>

\* OnCompositionTerminated called by the host from inside the host call of
\* the execution in flight: handle_action([EndComposition], None) from its
\* snapshot to its write-back
Reenter ==
  /\ in_flight.active /\ ~in_flight.overlapped
  /\ in_flight.snapshot.tip_composition /\ composition.tip_composition
  /\ LET actions == <<CA("EndComposition", Empty)>>
         X == RunActions(Frame(actions, "None", Env("none", << >>)), actions)
     IN /\ composition' = RecordAfter(X)
        /\ input_mode' = X.input_mode
        /\ ipc_service' = X.state_ipc
        /\ LAST_IPC_FAIL_TIME' = X.last_fail
        /\ backend_buf' = X.buf
  /\ in_flight' = [in_flight EXCEPT !.overlapped = TRUE]
  /\ UNCHANGED <<now, activated, backend_up, last, connector, text_service,
                 pipe_stream>>

\* the write-back of the execution in flight: the fields computed from its
\* snapshot are stored into the record as it is now; the host composition
\* handle is what the host calls left in place
EndAction ==
  /\ in_flight.active
  /\ LET X == in_flight.X
         tip == IF X.tip_composition # in_flight.snapshot.tip_composition
                THEN X.tip_composition ELSE composition.tip_composition
     IN /\ composition' = [RecordAfter(X) EXCEPT !.tip_composition = tip]
        /\ input_mode' = X.input_mode
        /\ ipc_service' = X.state_ipc
        /\ LAST_IPC_FAIL_TIME' = X.last_fail
        /\ backend_buf' = X.buf
        /\ last' = EventRecord(in_flight.kind, in_flight.actions, X)
  /\ in_flight' = NoRun
  /\ UNCHANGED <<now, activated, backend_up, connector, text_service, pipe_stream>>

InitReentry ==
  /\ connector = NoConnector
  /\ text_service = NoService
  /\ in_flight = NoRun
  /\ pipe_stream = NoStream
  /\ composition = EmptyComposition
  /\ input_mode \in {"Kana", "Latin"}
  /\ ipc_service = FALSE
  /\ LAST_IPC_FAIL_TIME = IPC_RECONNECT_COOLDOWN_SECS
  /\ now = IPC_RECONNECT_COOLDOWN_SECS
  /\ activated = TRUE
  /\ backend_up = FALSE
  /\ backend_buf = Empty
  /\ last = NoEvent

NextReentry ==
  \/ \E key \in Keys : BeginAction(key)
  \/ Reenter
  \/ EndAction

SpecReentry == InitReentry /\ [][NextReentry]_vars

\* --------------------------------------------- the server's pipe stream
\* TonicNamedPipeServer::new (server/src/lib.rs): the stream of connections.
\* pipe_stream.instances holds the first_pipe_instance flag of every pipe
\* instance created, in creation order; accepted holds the clients whose
\* connection completed a connect().await, in that order; items holds what the
\* stream yielded.
MaxClients == 3
MaxConns == 4
Clients == 1..MaxClients

PipeOk(client, instance) ==
  [ok |-> TRUE, client |-> client, instance |-> instance, err |-> "none"]
PipeErr(err) == [ok |-> FALSE, client |-> 0, instance |-> 0, err |-> err]

PipeOthers == <<composition, input_mode, ipc_service, LAST_IPC_FAIL_TIME, now,
                activated, backend_up, backend_buf, last, connector,
                text_service, in_flight>>

\* the first poll: ServerOptions::new().first_pipe_instance(true).create_..;
\* Err(e) => { yield Err(e); return; }
CreateFirst(fail) ==
  /\ pipe_stream.pc = "start"
  /\ pipe_stream' =
       IF fail
       THEN [pipe_stream EXCEPT !.pc = "done",
                                !.items = Append(@, PipeErr("create"))]
       ELSE [pipe_stream EXCEPT !.pc = "connect",
                                !.instances = Append(@, TRUE)]
  /\ UNCHANGED PipeOthers

\* server.connect().await?; yield Ok(TonicNamedPipeServer { inner: server })
Connect(client, fail) ==
  /\ pipe_stream.pc = "connect"
  /\ Len(pipe_stream.accepted) < MaxConns
  /\ pipe_stream' =
       IF fail
       THEN [pipe_stream EXCEPT !.pc = "done",
                                !.items = Append(@, PipeErr("connect"))]
       ELSE [pipe_stream EXCEPT
               !.pc = "yielded",
               !.accepted = Append(@, client),
               !.items = Append(@, PipeOk(client, Len(pipe_stream.instances)))]
  /\ UNCHANGED PipeOthers

\* the loop's case in which the instance handed to the client is waited on
\* again
Recreate_reuses_instance(fail) ==
  /\ pipe_stream.pc = "yielded"
  /\ pipe_stream' =
       IF fail
       THEN [pipe_stream EXCEPT !.pc = "done",
                                !.items = Append(@, PipeErr("create"))]
       ELSE [pipe_stream EXCEPT !.pc = "connect"]
  /\ UNCHANGED PipeOthers

\* the poll after a yielded connection:
\* server = ServerOptions::new().create_with_security_attributes_raw(..)?
Recreate(fail) ==
  /\ pipe_stream.pc = "yielded"
  /\ pipe_stream' =
       IF fail
       THEN [pipe_stream EXCEPT !.pc = "done",
                                !.items = Append(@, PipeErr("create"))]
       ELSE [pipe_stream EXCEPT !.pc = "connect",
                                !.instances = Append(@, FALSE)]
  /\ UNCHANGED PipeOthers

InitPipe ==
  /\ connector = NoConnector
  /\ text_service = NoService
  /\ in_flight = NoRun
  /\ pipe_stream = [NoStream EXCEPT !.pc = "start"]
  /\ composition = EmptyComposition
  /\ input_mode = "Latin"
  /\ ipc_service = FALSE
  /\ LAST_IPC_FAIL_TIME = 0
  /\ now = IPC_RECONNECT_COOLDOWN_SECS
  /\ activated = FALSE
  /\ backend_up = FALSE
  /\ backend_buf = Empty
  /\ last = NoEvent

NextPipe ==
  \/ \E fail \in BOOLEAN : CreateFirst(fail)
  \/ \E client \in Clients, fail \in BOOLEAN : Connect(client, fail)
  \/ \E fail \in BOOLEAN : Recreate(fail)

SpecPipe == InitPipe /\ [][NextPipe]_vars

\* ------------------------------------------------------------ properties
TextEmpty(c) ==
  /\ c.preview = Empty /\ c.suffix = Empty
  /\ c.raw_input = Empty /\ c.raw_hiragana = Empty

\* the fields handle_action writes back
Fields(c) ==
  <<c.preview, c.suffix, c.raw_input, c.raw_hiragana, c.candidates,
    c.selection_index, c.corresponding_count, c.state>>

HandleStateFields(c) ==
  /\ (c.state = "None") <=> ~c.tip_composition
  /\ (c.state = "None") <=> (TextEmpty(c) /\ c.selection_index = 0)

SelectionInRange(c) ==
  IF Len(c.candidates.texts) > 0
  THEN 0 <= c.selection_index /\ c.selection_index < Len(c.candidates.texts)
  ELSE c.selection_index = 0

CountInRange(c) ==
  0 <= c.corresponding_count /\ c.corresponding_count <= chars_count(c.raw_hiragana)

\* the last event ran a list ending in a conversion action, against the backend
AfterConversion ==
  /\ last.result = "consumed" /\ last.ops # << >>
  /\ last.ops[Len(last.ops)] \in {"AppendText", "RemoveText", "ShrinkText"}
  /\ ipc_service

ShowsSelection(c) ==
  /\ InBounds(c.candidates.texts, c.selection_index)
  /\ c.preview = At(c.candidates.texts, c.selection_index)
  /\ c.suffix = At(c.candidates.sub_texts, c.selection_index)

OfflineShape(c) ==
  /\ c.preview = c.raw_hiragana /\ c.suffix = Empty
  /\ Len(c.candidates.texts) = 0

\* C1: after every completed event the record has state = None exactly when
\* the host composition handle is absent, and exactly when the four text
\* fields are empty and selection_index = 0.
C1_StateHandleFields == HandleStateFields(composition)

\* C2: after every key event selection_index indexes the candidate list when
\* the list is non-empty, and is 0 when the list is empty.
C2_SelectionInRange == SelectionInRange(composition)

\* C3: after every key event 0 <= corresponding_count <= chars(raw_hiragana),
\* with the client present, absent, and installed by a lazy reconnection.
C3_CountInRange == CountInRange(composition)

\* a composition that began without a client and got one by reconnection
C3_Witness ==
  /\ ipc_service /\ LAST_IPC_FAIL_TIME > 0
  /\ last.result = "consumed" /\ last.ops = <<"AppendText">>
  /\ composition.corresponding_count = MaxLen
  /\ chars_count(composition.raw_hiragana) = MaxLen

\* C4: after AppendText, RemoveText or ShrinkText whose backend call answered
\* with a non-empty candidate list, the record written back shows the
\* selected candidate: preview = its text, suffix = its sub_text.
C4_ShowsSelection ==
  (AfterConversion /\ Len(composition.candidates.texts) > 0)
    => ShowsSelection(composition)

\* C5: while the client is absent (offline mode) the record has
\* preview = raw_hiragana, suffix empty and no candidates.
C5_OfflineShape == ~ipc_service => OfflineShape(composition)

\* a function key taken offline on a composition of MaxLen characters
C5_Witness ==
  /\ ~ipc_service
  /\ last.result = "consumed" /\ last.ops = <<"SetTextWithType">>
  /\ chars_count(composition.preview) = MaxLen

\* the frame a key event ends with, for a key process_key consumes
KeyRun(key, ctrl, fail, resp) ==
  LET pk == process_key(TRUE, key, ctrl, composition, input_mode)
  IN RunActions(Frame(pk.actions, pk.transition, Env(fail, resp)), pk.actions)

KeyActions(key, ctrl) == process_key(TRUE, key, ctrl, composition, input_mode).actions

\* C6: after every key event either the record satisfies the five invariants
\* of the data model, or the record, its host composition handle included,
\* is what it was before the event.
C6_InvariantsOrSnapshot ==
  [][last'.kind \notin {"terminated", "activate"}
       => \/ composition' = composition
          \/ /\ HandleStateFields(composition')
             /\ SelectionInRange(composition')
             /\ CountInRange(composition')
             /\ C4_ShowsSelection'
             /\ C5_OfflineShape']_vars

\* C7: when an action of the list fails, no call is issued after the failing
\* one (the remaining actions are not executed), the event ends in the error,
\* and the fields preview, suffix, raw_input, raw_hiragana, candidates,
\* selection_index, corresponding_count and state of the record are what
\* they were before the event.
C7_FailureLeavesRecord ==
  /\ [](\A key \in Keys, ctrl \in BOOLEAN :
          \A fail \in FailsFor(KeyActions(key, ctrl)) :
            \A resp \in RespFor(KeyActions(key, ctrl), fail) :
              LET X == KeyRun(key, ctrl, fail, resp)
              IN X.status[1] = "error" => X.failed_at = Len(X.trace))
  /\ [][last'.result = "error"
          => Fields(composition') = Fields(composition)]_vars

\* a failed event on a composition in progress
C7_Witness ==
  /\ last.result = "error"
  /\ composition.state = "Previewing"
  /\ composition.selection_index > 0

\* the keys the claim allows to end a composition
ExitKey(c, key) ==
  \/ key.t \in {"Enter", "Escape", "ToggleInputMode"}
  \/ key.t = "Backspace" /\ chars_count(c.preview) = 1

LeavesComposition(key, ctrl) ==
  \E fail \in FailsFor(KeyActions(key, ctrl)) :
    \E resp \in RespFor(KeyActions(key, ctrl), fail) :
      RecordAfter(KeyRun(key, ctrl, fail, resp)).state = "None"

\* C8 (as stated): a key event takes the record from Composing or Previewing
\* to None only if it is an Enter, an Escape, a ToggleInputMode, or a
\* Backspace taken when preview has exactly one character.
C8_ExitOnlyByListedKeys ==
  composition.state \in {"Composing", "Previewing"}
    => \A key \in Keys, ctrl \in BOOLEAN :
         \/ ExitKey(composition, key)
         \/ ~process_key(TRUE, key, ctrl, composition, input_mode).consumed
         \/ ~LeavesComposition(key, ctrl)

\* C8 (amended): a key event takes the record from Composing or Previewing to
\* None only if it is an Enter, an Escape, a ToggleInputMode, a Backspace
\* taken when preview has exactly one character, or one of the reserved key
\* codes 0x97 and 0x98.
C8_ExitOnlyByListedKeysOrModeCodes ==
  composition.state \in {"Composing", "Previewing"}
    => \A key \in Keys, ctrl \in BOOLEAN :
         \/ ExitKey(composition, key)
         \/ KeyCode(key) \in {VK_IME_OFF, VK_IME_ON}
         \/ ~process_key(TRUE, key, ctrl, composition, input_mode).consumed
         \/ ~LeavesComposition(key, ctrl)

\* a reserved key code has ended a composition: the handle and the
\* candidates of the composition are still there
C8_Witness ==
  /\ last.kind = "key" /\ last.ops = <<"SetIMEMode">>
  /\ composition.state = "None"
  /\ composition.tip_composition
  /\ Len(composition.candidates.texts) > 0

\* the rows of the transition table
InTable(st, mode, action) ==
  \/ st = "None" /\ action.t \in {"Input", "Number"} /\ mode = "Kana"
  \/ st = "None" /\ action.t = "ToggleInputMode"
  \/ /\ st \in {"Composing", "Previewing"}
     /\ action.t \in {"Input", "Number", "Backspace", "Enter", "Escape",
                      "Navigation", "ToggleInputMode", "Space", "Tab", "Function"}

\* C9: for a (state, mode, action) that is no row of the transition table,
\* process_key answers "not consumed" with no client action, and the key
\* event leaves the record, the input mode, the client and the backend
\* unchanged.
C9_UnlistedNotConsumed ==
  /\ [](\A action \in UserActions :
          ~InTable(composition.state, input_mode, action)
            => process_key(TRUE, action, FALSE, composition, input_mode) = NotConsumed)
  /\ [][\A action \in UserActions :
          (~InTable(composition.state, input_mode, action)
             /\ handle_key(TRUE, action, FALSE))
            => /\ last'.result = "not_consumed"
               /\ UNCHANGED <<composition, input_mode, ipc_service, backend_buf>>]_vars

\* a key refused in the reserved state Selecting
C9_Witness ==
  /\ last.result = "not_consumed"
  /\ composition.state = "Selecting"

\* C10: in state None with mode Kana, Input and Number yield Composing with
\* [StartComposition, AppendText] in that order, and a key event issues
\* StartComposition only when it leaves None and no host composition started
\* earlier is still active.
C10_StartOncePerComposition ==
  \A key \in Keys, ctrl \in BOOLEAN :
    LET pk == process_key(TRUE, key, ctrl, composition, input_mode)
    IN /\ (/\ composition.state = "None" /\ input_mode = "Kana"
           /\ key.t \in {"Input", "Number"} /\ ~ctrl)
          => pk = Consumed("Composing", <<CA("StartComposition", Empty),
                                          CA("AppendText", <<key.v>>)>>)
       /\ (\E i \in 1..Len(pk.actions) : pk.actions[i].op = "StartComposition")
          => (composition.state = "None" /\ ~composition.tip_composition)

\* a composition is in progress
Composed == composition.state \in {"Composing", "Previewing"}

\* C11: Backspace in Composing or Previewing answers None with
\* [RemoveText, EndComposition] when preview has exactly one character, and
\* Composing with [RemoveText] for every other length, zero included.
C11_BackspaceRows ==
  Composed =>
    process_key(TRUE, UA("Backspace", ""), FALSE, composition, input_mode)
      = IF chars_count(composition.preview) = 1
        THEN Consumed("None", <<CA("RemoveText", Empty), CA("EndComposition", Empty)>>)
        ELSE Consumed("Composing", <<CA("RemoveText", Empty)>>)

\* a Backspace left a composition with an empty preview, where the next
\* Backspace is the zero-length case
C11_Witness ==
  /\ last.result = "consumed" /\ last.ops = <<"RemoveText">>
  /\ composition.state = "Composing"
  /\ composition.preview = Empty

\* C12: Enter in Composing or Previewing answers [EndComposition] alone and
\* None when the suffix is empty, [ShrinkText("")] and Composing when it is
\* not; an event that runs to its end leaves the record in that state.
C12_EnterRows ==
  Composed =>
    LET pk == process_key(TRUE, UA("Enter", ""), FALSE, composition, input_mode)
    IN /\ pk = IF composition.suffix = Empty
               THEN Consumed("None", <<CA("EndComposition", Empty)>>)
               ELSE Consumed("Composing", <<CA("ShrinkText", Empty)>>)
       /\ \A fail \in FailsFor(pk.actions) :
            \A resp \in RespFor(pk.actions, fail) :
              LET X == KeyRun(UA("Enter", ""), FALSE, fail, resp)
              IN Running(X) =>
                   RecordAfter(X).state =
                     (IF composition.suffix = Empty THEN "None" ELSE "Composing")

\* Enter has ended a composition whose suffix was empty
C12_Witness ==
  /\ last.kind = "key" /\ last.result = "consumed"
  /\ last.ops = <<"EndComposition">>
  /\ composition.state = "None"

\* C13: ToggleInputMode in None keeps None and issues SetIMEMode of the
\* opposite mode; in Composing or Previewing it issues
\* [EndComposition, SetIMEMode(Latin)] and answers None; an event that runs to
\* its end leaves state None and the mode so set.
C13_ToggleRows ==
  LET key == UA("ToggleInputMode", "")
      pk == process_key(TRUE, key, FALSE, composition, input_mode)
      to == IF composition.state = "None"
            THEN (IF input_mode = "Kana" THEN "Latin" ELSE "Kana")
            ELSE "Latin"
  IN (composition.state \in {"None", "Composing", "Previewing"}) =>
       /\ pk = IF composition.state = "None"
               THEN Consumed("None", <<CA("SetIMEMode", <<to>>)>>)
               ELSE Consumed("None", <<CA("EndComposition", Empty),
                                       CA("SetIMEMode", <<"Latin">>)>>)
       /\ \A fail \in FailsFor(pk.actions) :
            LET X == KeyRun(key, FALSE, fail, << >>)
            IN Running(X) => (X.input_mode = to /\ RecordAfter(X).state = "None")

\* ToggleInputMode has ended a composition
C13_Witness ==
  /\ last.kind = "key" /\ last.result = "consumed"
  /\ last.ops = <<"EndComposition", "SetIMEMode">>
  /\ composition.state = "None" /\ input_mode = "Latin"

\* the keys that select the next candidate
DownKeys == {UA("Space", ""), UA("Tab", ""), UA("Navigation", "Down")}
UpKeys == {UA("Navigation", "Up")}

\* C14: SetSelection's new index is max(0, i-1) for Up and
\* min(|candidates|-1, i+1) for Down: Up at index 0 stays at 0 and Down at the
\* last candidate stays at the last candidate, for every list size; a key
\* event that runs to its end writes that index back.
C14_SelectionClamped ==
  /\ \A n \in 0..(MaxCands + 1), i \in 0..(MaxCands + 1) :
       /\ NewSelection("Up", n, i) = (IF i >= 1 THEN i - 1 ELSE 0)
       /\ NewSelection("Down", n, i) = (IF i + 1 <= n - 1 THEN i + 1 ELSE n - 1)
  /\ \A n \in 1..(MaxCands + 1) :
       /\ NewSelection("Up", n, 0) = 0
       /\ NewSelection("Down", n, n - 1) = n - 1
  /\ Composed =>
       \A key \in DownKeys \cup UpKeys :
         \A fail \in FailsFor(KeyActions(key, FALSE)) :
           LET X == KeyRun(key, FALSE, fail, << >>)
               i == composition.selection_index
               n == Len(composition.candidates.texts)
           IN Running(X) =>
                RecordAfter(X).selection_index =
                  (IF key \in UpKeys
                   THEN (IF i >= 1 THEN i - 1 ELSE 0)
                   ELSE (IF i + 1 <= n - 1 THEN i + 1 ELSE n - 1))

\* a selection made on a list of several candidates, now at the last one
C14_Witness ==
  /\ last.result = "consumed" /\ last.ops = <<"SetSelection">>
  /\ composition.selection_index = Len(composition.candidates.texts) - 1
  /\ composition.selection_index > 0

\* C15: Space, Tab or Navigation(Down) in Composing or Previewing at an index
\* i that is not the last candidate: the key is consumed with
\* [SetSelection(Down)], the UI set_selection call carries i+1, and when the
\* event runs to its end the state is Previewing, selection_index is i+1,
\* preview, suffix and corresponding_count are those of candidates[i+1], and
\* the host text is set once, to that (preview, suffix).
C15_SelectNext ==
  LET i == composition.selection_index
      cands == composition.candidates
  IN (Composed /\ 0 <= i /\ i < Len(cands.texts) - 1) =>
       \A key \in DownKeys :
         /\ process_key(TRUE, key, FALSE, composition, input_mode)
              = Consumed("Previewing", <<CA("SetSelection", <<"Down">>)>>)
         /\ \A fail \in FailsFor(KeyActions(key, FALSE)) :
              LET X == KeyRun(key, FALSE, fail, << >>)
                  R == RecordAfter(X)
              IN /\ (ipc_service /\ fail = "none") => Running(X)
                 /\ ipc_service => X.ui_selections = <<i + 1>>
                 /\ Running(X) =>
                      /\ R.state = "Previewing"
                      /\ R.selection_index = i + 1
                      /\ R.preview = At(cands.texts, i + 1)
                      /\ R.suffix = At(cands.sub_texts, i + 1)
                      /\ R.corresponding_count = At(cands.corresponding_count, i + 1)
                      /\ X.set_texts = <<<<R.preview, R.suffix>>>>

\* the second candidate has been selected
C15_Witness ==
  /\ last.kind = "key" /\ last.result = "consumed"
  /\ last.ops = <<"SetSelection">>
  /\ composition.state = "Previewing"
  /\ composition.selection_index = 1
  /\ composition.preview = At(composition.candidates.texts, 1)

\* the reserved key codes and the mode each one forces
ModeCodes == {<<UA("VK", "0x97"), "Latin">>, <<UA("VK", "0x98"), "Kana">>}

\* C16: key codes 0x97 and 0x98 are consumed with the control modifier held
\* or not and in every composition state, the states the table refuses
\* included: process_key yields exactly [SetIMEMode(Latin)] for 0x97 and
\* [SetIMEMode(Kana)] for 0x98 with transition None, and the event runs to
\* its end.
C16_ModeCodesAlwaysConsumed ==
  \A kc \in ModeCodes, ctrl \in BOOLEAN :
    /\ process_key(TRUE, kc[1], ctrl, composition, input_mode)
         = Consumed("None", <<CA("SetIMEMode", <<kc[2]>>)>>)
    /\ \A fail \in FailsFor(KeyActions(kc[1], ctrl)) :
         LET X == KeyRun(kc[1], ctrl, fail, << >>)
         IN Running(X) /\ X.input_mode = kc[2] /\ RecordAfter(X).state = "None"

\* a SetIMEMode(Kana) list on its own has run while a composition was open:
\* the record is in None and Kana with the host handle still held
C16_Witness ==
  /\ last.kind = "key" /\ last.result = "consumed"
  /\ last.ops = <<"SetIMEMode">>
  /\ composition.state = "None" /\ input_mode = "Kana"
  /\ composition.tip_composition

\* a key event with the control modifier held, for a key that is not a
\* reserved code
CtrlKeyEvent == \E key \in UserActions : handle_key(TRUE, key, TRUE)

\* C17: for every key other than 0x97 and 0x98, in every composition state,
\* a key event that arrives with the control modifier held is reported not
\* consumed: process_key yields no action list, and the event changes neither
\* the composition record, the input mode, the IPC client, the backend's
\* buffer nor the reconnection time.
C17_CtrlNotConsumed ==
  /\ [](\A key \in UserActions :
          process_key(TRUE, key, TRUE, composition, input_mode) = NotConsumed)
  /\ [][CtrlKeyEvent =>
          /\ last'.result = "not_consumed"
          /\ UNCHANGED <<composition, input_mode, ipc_service,
                         LAST_IPC_FAIL_TIME, backend_buf>>]_vars

\* a key event was refused while a composition with text is open, and the
\* composition is still there: where every key with the control modifier
\* held leaves the record
C17_Witness ==
  /\ last.result = "not_consumed"
  /\ Composed
  /\ composition.preview # Empty
  /\ process_key(TRUE, UA("Enter", ""), FALSE, composition, input_mode).consumed
  /\ ~process_key(TRUE, UA("Enter", ""), TRUE, composition, input_mode).consumed

\* the environments of a backend in any condition: pipes open or not, any
\* call refused or left without an answer
AnyEnvs ==
  {[Env(fail, << >>) EXCEPT !.hang = hang, !.up = up] :
     fail \in {"none"} \cup RpcCalls, hang \in BOOLEAN, up \in BOOLEAN}

\* the keys whose action list is SetIMEMode alone
ModeOnlyKeys ==
  {key \in Keys : Ops(KeyActions(key, FALSE)) = <<"SetIMEMode">>}

\* C18: executing SetIMEMode(m) sets the input mode to m, clears preview,
\* suffix, raw_input and raw_hiragana, resets selection_index and
\* corresponding_count to 0, and issues no call and no reconnection attempt
\* (the IPC client and the reconnection time are as before), whatever the
\* backend does; hence the key events whose action list is SetIMEMode alone
\* (0x97, 0x98, and ToggleInputMode in None) run to their end.
C18_SetIMEModeLocal ==
  /\ {UA("VK", "0x97"), UA("VK", "0x98")} \subseteq ModeOnlyKeys
  /\ composition.state = "None" => UA("ToggleInputMode", "") \in ModeOnlyKeys
  /\ \A env \in AnyEnvs :
       /\ \A m \in {"Kana", "Latin"} :
            LET action == CA("SetIMEMode", <<m>>)
                X == Frame(<<action>>, "None", env)
                Y == DoAction(X, action)
            IN /\ Running(Y)
               /\ Y.input_mode = m
               /\ Y.preview = Empty /\ Y.suffix = Empty
               /\ Y.raw_input = Empty /\ Y.raw_hiragana = Empty
               /\ Y.selection_index = 0 /\ Y.corresponding_count = 0
               /\ Y.trace = << >>
               /\ Y.state_ipc = ipc_service /\ Y.ipc_service = ipc_service
               /\ Y.last_fail = LAST_IPC_FAIL_TIME
       /\ \A key \in ModeOnlyKeys :
            LET pk == process_key(TRUE, key, FALSE, composition, input_mode)
                X == RunActions(Frame(pk.actions, pk.transition, env), pk.actions)
            IN Running(X) /\ X.trace = << >>
                 /\ X.input_mode = pk.actions[1].arg[1]

\* a mode change has run with the client absent, the pipes closed and a
\* reconnection due
C18_Witness ==
  /\ last.kind = "key" /\ last.result = "consumed"
  /\ last.ops = <<"SetIMEMode">>
  /\ ~ipc_service /\ ~backend_up
  /\ should_try_ipc_reconnect(now, LAST_IPC_FAIL_TIME)

\* C19: every call of the IPC client returns to its caller, with a Timeout
\* error when the service never answers, so that no key event stops for ever
\* inside a call.
C19_EveryRpcReturns == last.result # "blocked"

\* a call of open has just returned
Opened == connector.pc = "open" /\ connector' # connector

\* C20: opening a transport. A busy result leaves the not-found counter as it
\* is and sends the loop to its sleep, however many busy results came before;
\* a not-found result is counted, the open failing at the
\* MAX_CONNECT_RETRIES-th one and going to its sleep before that; any other
\* error fails at once; every retry comes after a sleep of
\* CONNECT_RETRY_DELAY ms and there are never more than MAX_CONNECT_RETRIES
\* retries after not-found results; and when the endpoint is never found the
\* open ends in failure.
C20_OpenRetries ==
  /\ [](/\ connector.retries <= MAX_CONNECT_RETRIES
        /\ (connector.pc = "failed" /\ connector.result = "not_found")
              <=> connector.retries = MAX_CONNECT_RETRIES
        /\ connector.result = "other" => connector.pc = "failed"
        /\ connector.result = "busy" => connector.pc \in {"sleep", "open"}
        /\ (connector.pc = "open" /\ connector.result \in {"busy", "not_found"})
              => connector.slept = CONNECT_RETRY_DELAY)
  /\ [][Opened =>
          /\ connector'.result = "busy"
               => /\ connector'.pc = "sleep"
                  /\ connector'.retries = connector.retries
          /\ connector'.result = "not_found"
               => /\ connector'.retries = connector.retries + 1
                  /\ connector'.busy = connector.busy
                  /\ connector'.pc = IF connector.retries + 1 = MAX_CONNECT_RETRIES
                                     THEN "failed" ELSE "sleep"
          /\ connector'.result = "other" => connector'.pc = "failed"]_vars
  /\ (connector.endpoint = "not_found") ~> (connector.pc = "failed")

\* the open failed on its last not-found result with busy results in between,
\* as many as are counted
C20_Witness ==
  /\ connector.pc = "failed" /\ connector.result = "not_found"
  /\ connector.retries = MAX_CONNECT_RETRIES
  /\ connector.busy = MaxBusy

\* C22: a connection attempt (IPCService::new) that fails comes at least
\* IPC_RECONNECT_COOLDOWN_SECS after the failed attempt before it, be that one
\* the attempt of a key event or the attempt of the activation.
C22_FailedAttemptsApart ==
  \A key \in Keys : \A fail \in {"none", "append_text"} :
    LET X == KeyRun(key, FALSE, fail, <<1>>)
    IN (activated /\ Alive /\ ~ipc_service /\ ~backend_up
          /\ \E i \in 1..Len(X.trace) : X.trace[i] = "IPCService::new")
         => /\ X.last_fail = now
            /\ now - LAST_IPC_FAIL_TIME >= IPC_RECONNECT_COOLDOWN_SECS
            /\ last.kind = "activate"
                 => now - last.at >= IPC_RECONNECT_COOLDOWN_SECS

\* the actions that issue a call on the candidate window or clear_text
OptionalCallOps ==
  {"StartComposition", "EndComposition", "AppendText", "RemoveText", "ShrinkText"}

\* C23: when the candidate window service or clear_text refuses its call, a
\* key event made of StartComposition, EndComposition, AppendText, RemoveText
\* and ShrinkText actions does not end in an error: the list runs to its end.
C23_OptionalNeverAborts ==
  \A key \in Keys : \A fail \in {"window", "clear_text"} : \A resp \in Responses :
    LET actions == KeyActions(key, FALSE)
        X == KeyRun(key, FALSE, fail, resp)
    IN (/\ activated /\ Alive /\ ipc_service
        /\ actions # << >>
        /\ \A i \in 1..Len(actions) : actions[i].op \in OptionalCallOps)
         => X.status[1] # "error"

\* the backend is unreachable for the event of environment failure `fail`:
\* no client and the pipes down, or a client whose append_text gets no answer
Unreachable(fail) ==
  IF ipc_service THEN fail = "append_text" ELSE ~backend_up /\ fail = "none"

\* C24: in mode Kana with an empty record, the key Input(c) with the backend
\* unreachable (client absent, or present and unanswered) succeeds offline:
\* raw_hiragana = preview = the fullwidth c, suffix and candidates empty,
\* corresponding_count the character count of raw_hiragana, the host text set
\* to (preview, ""), state Composing.
C24_OfflineInput ==
  \A c \in InputChars : \A fail \in {"none", "append_text"} :
    LET X == KeyRun(UA("Input", c), FALSE, fail, << >>)
        r == RecordAfter(X)
    IN (/\ activated /\ Alive /\ input_mode = "Kana"
        /\ composition = EmptyComposition
        /\ Unreachable(fail))
         => /\ Running(X)
            /\ r.raw_hiragana = to_fullwidth(<<c>>, FALSE)
            /\ r.preview = r.raw_hiragana
            /\ r.suffix = Empty
            /\ r.candidates = NoCandidates
            /\ r.corresponding_count = chars_count(r.raw_hiragana)
            /\ X.set_texts = << <<r.preview, Empty>> >>
            /\ r.state = "Composing"

\* the text a function key puts in place of the composition
Replacement(set_type, raw_hiragana, raw_input) ==
  CASE set_type = "Hiragana" -> raw_hiragana
    [] set_type = "Katakana" -> to_katakana(raw_hiragana)
    [] set_type = "HalfKatakana" -> to_half_katakana(raw_hiragana)
    [] set_type = "FullLatin" -> to_fullwidth(raw_input, TRUE)
    [] set_type = "HalfLatin" -> to_halfwidth(raw_input)

\* C25: a function key F6..F10 in Composing or Previewing gives the state
\* Previewing and the single action SetTextWithType(kind); run in any
\* environment of the backend, it sets the host text to (replacement, "")
\* with the replacement computed from the record's raw_hiragana or
\* raw_input, and that is its only call: no IPC call, no reconnection attempt
\* (client and reconnection time as before).
C25_FunctionKeyLocal ==
  \A f \in FunctionKeys : \A env \in AnyEnvs :
    LET pk == process_key(TRUE, UA("Function", f), FALSE, composition, input_mode)
        X == RunActions(Frame(pk.actions, pk.transition, env), pk.actions)
    IN composition.state \in {"Composing", "Previewing"}
         => /\ pk.consumed
            /\ pk.transition = "Previewing"
            /\ pk.actions = <<CA("SetTextWithType", <<FunctionType(f)>>)>>
            /\ Running(X)
            /\ X.trace = <<"set_text">>
            /\ X.set_texts = << <<Replacement(FunctionType(f),
                                             composition.raw_hiragana,
                                             composition.raw_input), Empty>> >>
            /\ X.state_ipc = ipc_service /\ X.ipc_service = ipc_service
            /\ X.last_fail = LAST_IPC_FAIL_TIME

\* a function key has replaced a converted composition (candidates present,
\* client connected)
C25_Witness ==
  /\ ipc_service
  /\ last.result = "consumed" /\ last.ops = <<"SetTextWithType">>
  /\ composition.state = "Previewing"
  /\ composition.candidates # NoCandidates
  /\ composition.raw_hiragana # Empty

\* C26: a key event reports "not consumed" exactly when the context is absent
\* or process_key returns nothing, and then nothing else changes; when
\* process_key returns an action list the event reports "consumed" exactly
\* when the list ran to its end (the write-back done), and the error, never
\* "consumed", when the list failed.
C26_HandleKeyResult ==
  /\ [](\A key \in Keys : \A fail \in FailsFor(KeyActions(key, FALSE)) :
          \A env \in EnvsFor(KeyActions(key, FALSE), fail) :
            LET pk == process_key(TRUE, key, FALSE, composition, input_mode)
                X == RunActions(Frame(pk.actions, pk.transition, env), pk.actions)
                r == EventRecord("key", pk.actions, X).result
            IN (activated /\ Alive /\ pk.consumed) =>
                 /\ r # "not_consumed"
                 /\ (r = "consumed") <=> (Running(X) /\ RecordAfter(X) = WriteBack(X))
                 /\ X.status[1] = "error" => r = "error")
  /\ [][/\ (last' # last /\ last'.result = "not_consumed") =>
             \E context \in BOOLEAN, key \in Keys, ctrl \in BOOLEAN :
               /\ ~process_key(context, key, ctrl, composition, input_mode).consumed
               /\ handle_key(context, key, ctrl)
        /\ last'.result # "not_consumed" =>
             \A context \in BOOLEAN, key \in Keys, ctrl \in BOOLEAN :
               (~context \/ ~process_key(context, key, ctrl, composition,
                                         input_mode).consumed)
                 => ~handle_key(context, key, ctrl)]_vars

\* an event on a running composition has returned the error of its list,
\* the record left as it stood
C26_Witness ==
  /\ last.result = "error" /\ last.kind = "none"
  /\ ipc_service
  /\ composition.state = "Composing" /\ composition.preview # Empty

\* the calls on the candidate window, and the calls on the converter
UiRpcs == {"show_window", "hide_window", "set_candidates", "set_selection",
           "set_window_position"}
ConversionRpcs == {"append_text", "remove_text", "shrink_text"}

\* C28: in the calls of one key event, in the order they are issued, no call
\* on the candidate window comes before a call on the converter.
C28_UiAfterConversion ==
  \A key \in Keys : \A resp \in Responses :
    LET X == KeyRun(key, FALSE, "none", resp)
    IN (activated /\ Alive) =>
         \A i, j \in 1..Len(X.trace) :
           (i < j /\ X.trace[j] \in ConversionRpcs) => X.trace[i] \notin UiRpcs

\* a call over the pipes, to the converter or to the candidate window
IsRpc(name) == name \in ConversionRpcs \cup UiRpcs

\* C29: Input/Number in Previewing and Enter with a non-empty suffix give the
\* single action ShrinkText(t). Run to its end, ShrinkText(t) calls
\* shrink_text(corresponding_count), then append_text(shaped t) once, then
\* set_candidates and set_selection; selection_index is 0, preview, suffix and
\* corresponding_count are those of the first new candidate, raw_input is the
\* old raw_input plus t without its first corresponding_count characters, and
\* the state written back is Composing for every requested transition.
C29_ShrinkTextOrder ==
  \A key \in Keys : \A resp \in Responses :
    \A tr \in {"None", "Composing", "Previewing"} :
      LET pk == process_key(TRUE, key, FALSE, composition, input_mode)
          t == pk.actions[1].arg
          X == RunActions(Frame(pk.actions, tr, Env("none", resp)), pk.actions)
      IN /\ (composition.state = "Previewing" /\ key.t \in {"Input", "Number"})
              => pk.actions = <<CA("ShrinkText", <<key.v>>)>>
         /\ (composition.state \in {"Composing", "Previewing"} /\ key.t = "Enter"
               /\ composition.suffix # Empty)
              => pk.actions = <<CA("ShrinkText", Empty)>>
         /\ (activated /\ Alive /\ pk.consumed
               /\ Ops(pk.actions) = <<"ShrinkText">> /\ Running(X))
              => /\ SelectSeq(X.trace, IsRpc)
                      = <<"shrink_text", "append_text", "set_candidates",
                          "set_selection">>
                 /\ X.buf = Skip(backend_buf, composition.corresponding_count)
                              \o Kana(Shape(input_mode, t))
                 /\ X.selection_index = 0 /\ X.ui_selections = <<0>>
                 /\ X.preview = At(X.candidates.texts, 0)
                 /\ X.suffix = At(X.candidates.sub_texts, 0)
                 /\ X.corresponding_count = At(X.candidates.corresponding_count, 0)
                 /\ X.candidates = Respond(X.buf, resp)
                 /\ X.raw_input = Skip(composition.raw_input \o t,
                                       composition.corresponding_count)
                 /\ RecordAfter(X).state = "Composing"

\* a key typed on a previewed candidate has shrunk the composition
C29_Witness ==
  /\ last.result = "consumed" /\ last.ops = <<"ShrinkText">>
  /\ composition.state = "Composing"
  /\ composition.selection_index = 0
  /\ composition.raw_input # Empty /\ composition.preview # Empty

\* the action lists that end the composition in the current state: those of
\* the keys, and the list of the composition-terminated callback
EndLists ==
  {l \in {KeyActions(key, FALSE) : key \in Keys} :
     \E i \in 1..Len(l) : l[i].op = "EndComposition"}
    \cup (IF composition.tip_composition
          THEN {<<CA("EndComposition", Empty)>>} ELSE {})

IsEndUiCall(name) == name \in {"hide_window", "set_candidates", "clear_text"}

\* C30: after a list with EndComposition and transition None has run to its
\* end, the record has state None, preview, suffix, raw_input and
\* raw_hiragana empty, corresponding_count 0, selection_index 0 and no
\* candidates; with a client, hide_window, set_candidates and clear_text are
\* the last calls on the pipes, in that order.
C30_EndCompositionClears ==
  \A actions \in EndLists : \A resp \in Responses :
    LET X == RunActions(Frame(actions, "None", Env("none", resp)), actions)
        r == RecordAfter(X)
        ui == SelectSeq(X.trace, IsEndUiCall)
    IN (activated /\ Alive /\ Running(X))
         => /\ r.state = "None"
            /\ r.preview = Empty /\ r.suffix = Empty
            /\ r.raw_input = Empty /\ r.raw_hiragana = Empty
            /\ r.corresponding_count = 0 /\ r.selection_index = 0
            /\ X.ipc_service =>
                 SubSeq(ui, Len(ui) - 2, Len(ui))
                   = <<"hide_window", "set_candidates", "clear_text">>
            /\ r.candidates = NoCandidates

\* C21: an activation that the host accepts at every call makes one attempt
\* to build the IPC client, and when that attempt or its probe fails it still
\* ends with the thread manager stored, the key event sink, the
\* thread-manager sink, the text-layout sink and the language-bar item
\* installed, the input mode Kana and the IPC handle absent.
C21_ActivationOffline ==
  [][\A tid \in Tids, probe_fail \in BOOLEAN, focus \in BOOLEAN :
       (/\ ITfTextInputProcessor_Activate(TRUE, tid, probe_fail, focus, "none")
        /\ ~(backend_up /\ ~probe_fail))
         => /\ text_service'.ipc_attempts = 1
            /\ last'.result = "ok"
            /\ text_service'.thread_mgr /\ text_service'.key_sink
            /\ text_service'.cookie /\ text_service'.langbar
            /\ input_mode' = "Kana"
            /\ ~ipc_service'
            /\ text_service'.layout_sink]_vars

\* C27: a Deactivate called while thread_mgr is absent returns success and
\* changes nothing: the registrations, the cookies, tid, the DLL's reference
\* count, the composition and the IME state are what they were.
C27_DeactivateNoOp ==
  [][(ITfTextInputProcessor_Deactivate("none") /\ ~text_service.thread_mgr)
       => /\ last'.result = "ok"
          /\ UNCHANGED <<composition, input_mode, ipc_service,
                         LAST_IPC_FAIL_TIME, backend_buf>>
          /\ text_service' = text_service]_vars

\* element i of a vector, or the default when there is none (.get(i).unwrap_or)
GetOr(vec, i, default) == IF InBounds(vec, i) THEN At(vec, i) ELSE default

\* C31: RemoveText with a client (stored, or connected by the action) calls
\* remove_text, adopts the answer, takes preview, suffix and
\* corresponding_count from the entry at selection_index ("" and 0 when there
\* is none), raw_hiragana from the answer, and keeps the first
\* corresponding_count characters of raw_input; without a client it drops the
\* last character of raw_hiragana and of raw_input, sets preview =
\* raw_hiragana, suffix empty, corresponding_count = the character count of
\* raw_hiragana, and runs to its end also when raw_hiragana is empty.
C31_RemoveText ==
  \A resp \in Responses :
    LET action == CA("RemoveText", Empty)
        X == Frame(<<action>>, composition.state, Env("none", resp))
        Y == DoAction(X, action)
        c == composition
    IN (activated /\ Alive) =>
         IF Y.ipc_service
         THEN /\ Running(Y)
              /\ SelectSeq(Y.trace, IsRpc)
                   = <<"remove_text", "set_candidates", "set_selection">>
              /\ Y.buf = DropLast(backend_buf)
              /\ Y.candidates = Respond(Y.buf, resp)
              /\ Y.preview = GetOr(Y.candidates.texts, c.selection_index, Empty)
              /\ Y.suffix = GetOr(Y.candidates.sub_texts, c.selection_index, Empty)
              /\ Y.corresponding_count
                   = GetOr(Y.candidates.corresponding_count, c.selection_index, 0)
              /\ Y.raw_hiragana = Y.candidates.hiragana
              /\ Y.raw_input = Take(c.raw_input, Y.corresponding_count)
              /\ Y.set_texts = << <<Y.preview, Y.suffix>> >>
         ELSE /\ Running(Y)
              /\ \A i \in 1..Len(Y.trace) : ~IsRpc(Y.trace[i])
              /\ Y.raw_hiragana = DropLast(c.raw_hiragana)
              /\ Y.raw_input = DropLast(c.raw_input)
              /\ Y.preview = Y.raw_hiragana /\ Y.suffix = Empty
              /\ Y.corresponding_count = chars_count(Y.raw_hiragana)
              /\ Y.set_texts = << <<Y.preview, Empty>> >>
              /\ Y.candidates = c.candidates

\* a Backspace has shortened a converted composition whose answer has fewer
\* candidates than the selected index
C31_Witness ==
  /\ last.result = "consumed" /\ last.ops = <<"RemoveText">>
  /\ ipc_service
  /\ ~InBounds(composition.candidates.texts, composition.selection_index)
  /\ composition.preview = Empty

\* C32: a Deactivate that runs to its end on an activated service leaves no
\* key event sink, no thread-manager sink cookie, no text-layout sink and no
\* language-bar item, tid 0 and no thread manager, and no IPC client in the
\* IME state.
C32_DeactivateDropsClient ==
  [][(ITfTextInputProcessor_Deactivate("none") /\ text_service.thread_mgr)
       => /\ last'.result = "ok"
          /\ ~text_service'.key_sink /\ ~text_service'.cookie
          /\ ~text_service'.layout_sink /\ ~text_service'.langbar
          /\ text_service'.tid = 0 /\ ~text_service'.thread_mgr
          /\ ~ipc_service']_vars

\* C33: while an execution of handle_action is between its snapshot and its
\* write-back, no other execution writes the composition record: the record
\* its write-back stores into is the record it cloned.
C33_NoOverlap == in_flight.active => composition = in_flight.snapshot

\* C34: the pipe stream creates its first instance with the first-instance
\* flag; every accepted client is yielded once, in acceptance order, on an
\* instance of its own, and whenever the stream waits for a client it waits on
\* a fresh instance created after the last accepted connection; if the first
\* creation fails the stream yields that one error and ends.
C34_PipeStream ==
  LET s == pipe_stream
      oks == SelectSeq(s.items, LAMBDA it : it.ok)
  IN s.pc # "none" =>
       /\ s.instances # << >> => s.instances[1]
       /\ Len(oks) = Len(s.accepted)
       /\ \A i \in 1..Len(oks) :
            oks[i].client = s.accepted[i] /\ oks[i].instance = i
       /\ s.pc = "connect" => Len(s.instances) = Len(s.accepted) + 1
       /\ (s.instances = << >> /\ s.pc # "start")
            => s.pc = "done" /\ s.items = <<PipeErr("create")>>

C34_Witness ==
  /\ pipe_stream.pc = "connect"
  /\ Len(pipe_stream.accepted) = MaxConns - 1
  /\ pipe_stream.accepted[1] # pipe_stream.accepted[2]


\* C35: whenever the record's state is Composing or Previewing the input mode
\* is Kana; a key event starts a composition only in Kana mode, and every
\* action list holding SetIMEMode comes with the transition None.
C35_ComposingInKana ==
  /\ composition.state \in {"Composing", "Previewing"} => input_mode = "Kana"
  /\ \A key \in Keys, ctrl \in BOOLEAN :
       LET pk == process_key(TRUE, key, ctrl, composition, input_mode)
           ops == Ops(pk.actions)
       IN pk.consumed =>
            /\ (\E i \in 1..Len(ops) : ops[i] = "StartComposition")
                 => input_mode = "Kana"
            /\ (\E i \in 1..Len(ops) : ops[i] = "SetIMEMode")
                 => pk.transition = "None"

C35_Witness ==
  /\ last.kind = "key" /\ last.result = "consumed"
  /\ last.ops = <<"SetIMEMode">>
  /\ input_mode = "Latin"
  /\ backend_buf # Empty

\* the record and the backend's composing buffer agree
BufferAgrees(c, buf) ==
  /\ c.raw_hiragana = buf
  /\ c.state = "None" => buf = Empty

\* C36: online, with a backend that answers every call, a key event taken
\* where the record and the backend's buffer agree leaves them agreeing:
\* raw_hiragana is the hiragana of the backend's buffer, and the buffer is
\* empty whenever the state is None, after the mode keys 0x97/0x98 too.
C36_BackendAgrees ==
  \A key \in Keys : \A resp \in Responses :
    LET pk == process_key(TRUE, key, FALSE, composition, input_mode)
        X == KeyRun(key, FALSE, "none", resp)
    IN (/\ activated /\ Alive /\ ipc_service /\ backend_up
        /\ BufferAgrees(composition, backend_buf)
        /\ pk.consumed /\ Running(X))
         => BufferAgrees(RecordAfter(X), X.buf)

\* C37: no key event, with any backend response, indexes the candidate
\* vectors outside their bounds: no action list stops in the panic of an
\* index out of range.
C37_IndexInBounds ==
  \A key \in Keys : \A resp \in Responses :
    LET pk == process_key(TRUE, key, FALSE, composition, input_mode)
    IN (activated /\ Alive /\ pk.consumed)
         => KeyRun(key, FALSE, "none", resp).status[1] # "panic"


\* the call `name` is in the trace of the run
Issued(X, name) == \E i \in 1..Len(X.trace) : X.trace[i] = name

\* C38: a client handle stored in the IME state stays stored through every
\* event; with it stored, a key event makes no connection attempt, whatever
\* fails or never answers, and AppendText and RemoveText set the host text
\* only after their conversion call, never by their offline branch.
C38_HandleStays ==
  /\ [](ipc_service =>
         \A key \in Keys :
           LET pk == process_key(TRUE, key, FALSE, composition, input_mode)
               ops == Ops(pk.actions)
           IN (activated /\ Alive /\ pk.consumed) =>
                \A fail \in FailsFor(pk.actions) :
                  \A env \in EnvsFor(pk.actions, fail) :
                    LET X == RunActions(Frame(pk.actions, pk.transition, env),
                                        pk.actions)
                    IN /\ X.state_ipc /\ X.ipc_service
                       /\ ~Issued(X, "IPCService::new")
                       /\ ((\E i \in 1..Len(ops) : ops[i] = "AppendText")
                            /\ Issued(X, "set_text"))
                            => Issued(X, "append_text")
                       /\ ((\E i \in 1..Len(ops) : ops[i] = "RemoveText")
                            /\ Issued(X, "set_text"))
                            => Issued(X, "remove_text"))
  /\ [][ipc_service => ipc_service']_vars

C38_Witness ==
  /\ ipc_service
  /\ LAST_IPC_FAIL_TIME > 0
  /\ last.kind = "none" /\ last.result = "error"
  /\ composition.state = "Composing"


\* the number of times the call `name` is in the trace of the run
TimesIssued(X, name) == Cardinality({i \in 1..Len(X.trace) : X.trace[i] = name})

\* the actions whose only use of the client is through try_ipc!, or that make
\* no use of it
BestEffortOps ==
  {"StartComposition", "EndComposition", "SetIMEMode", "MoveCursor",
   "SetTextWithType"}

\* C39: a key event makes at most one connection attempt, whatever its list
\* and whatever fails, and a list whose actions reach the client only through
\* best-effort calls makes none, the client being absent and the cooldown over
\* included.
C39_OneAttemptPerEvent ==
  \A key \in Keys :
    LET pk == process_key(TRUE, key, FALSE, composition, input_mode)
        ops == Ops(pk.actions)
    IN (activated /\ Alive /\ pk.consumed) =>
         \A fail \in FailsFor(pk.actions) :
           \A env \in EnvsFor(pk.actions, fail) :
             LET X == RunActions(Frame(pk.actions, pk.transition, env),
                                 pk.actions)
             IN /\ TimesIssued(X, "IPCService::new") <= 1
                /\ (\A i \in 1..Len(ops) : ops[i] \in BestEffortOps)
                     => TimesIssued(X, "IPCService::new") = 0

\* the client is absent and the cooldown is over before a key that ends the
\* composition: an attempt is due at the next reconnect step
C39_Witness ==
  /\ ~ipc_service
  /\ should_try_ipc_reconnect(now, LAST_IPC_FAIL_TIME)
  /\ composition.state = "Composing"
  /\ Len(composition.preview) = 1
  /\ LAST_IPC_FAIL_TIME > 0

\* C40: after every key event whose list ran to its end and left the state
\* Composing or Previewing, the record's (preview, suffix) is the (text,
\* suffix) pair last set on the host composition: the last pair of the event
\* when it set one, SetTextWithType included, and unchanged when the event
\* set none and did not move the start of the composition (MoveCursor).
C40_RecordIsHostText ==
  \A key \in Keys : \A resp \in Responses :
    LET pk == process_key(TRUE, key, FALSE, composition, input_mode)
        X == KeyRun(key, FALSE, "none", resp)
        r == RecordAfter(X)
    IN (/\ activated /\ Alive /\ pk.consumed /\ Running(X)
        /\ r.state \in {"Composing", "Previewing"})
         => IF X.set_texts # << >>
            THEN X.set_texts[Len(X.set_texts)] = <<r.preview, r.suffix>>
            ELSE Issued(X, "shift_start")
                   \/ (r.preview = composition.preview
                       /\ r.suffix = composition.suffix)

====
